---- MODULE Spec2Model ----
(***************************************************************************)
(* A model of the chess rules engine: Board, Piece, Move, the piece        *)
(* movement rules, GameRules and the GameState transition functions        *)
(* (makeMove, resign, agreeToDraw).                                        *)
(*                                                                         *)
(* A Board object is a Map from the key "file,rank" to the Piece whose      *)
(* position is that key; here it is a function from the keys of the        *)
(* occupied squares to Piece records.  The Map's insertion order only      *)
(* decides the order of getAllLegalMoves and which of several kings of one *)
(* colour getKing finds; boards here hold one king per colour.             *)
(* Board objects live in a heap (boards) and a GameState holds the id of   *)
(* its Board, so that Board.clone and in-place mutation are distinguished. *)
(***************************************************************************)
EXTENDS Integers, Sequences, FiniteSets, TLC

\* ------------------------------------------------------------------ types

White == "white"
Black == "black"

Pawn == "pawn"
Knight == "knight"
Bishop == "bishop"
Rook == "rook"
Queen == "queen"
King == "king"

PieceTypes == {Pawn, Knight, Bishop, Rook, Queen, King}

\* the value of an optional parameter or field that is absent
Undefined == "undefined"

InProgress == "in_progress"
WhiteWin == "white_win"
BlackWin == "black_win"
Draw == "draw"

Checkmate == "checkmate"
Stalemate == "stalemate"
Resignation == "resignation"
DrawAgreement == "draw_agreement"
InsufficientMaterial == "insufficient_material"
FiftyMoveRule == "fifty_move_rule"

SpecialNone == "none"
EnPassant == "en_passant"
CastleKingside == "castle_kingside"
CastleQueenside == "castle_queenside"
PawnPromotion == "pawn_promotion"

Coords == 0..7

Position(f, r) == [file |-> f, rank |-> r]

Positions == {Position(f, r) : f \in Coords, r \in Coords}

\* an absent Position (enPassantTarget?: Position)
NoPosition == [file |-> -1, rank |-> -1]

isValid(pos) == pos.file >= 0 /\ pos.file <= 7 /\ pos.rank >= 0 /\ pos.rank <= 7

opposite(color) == IF color = White THEN Black ELSE White

\* ------------------------------------------------------------------ strings

\* a string is the sequence of its characters; the UTF-16 codes of the
\* characters that occur
CharCode ==
  (" " :> 32) @@ ("-" :> 45) @@ ("/" :> 47) @@
  ("0" :> 48) @@ ("1" :> 49) @@ ("2" :> 50) @@ ("3" :> 51) @@ ("4" :> 52) @@
  ("5" :> 53) @@ ("6" :> 54) @@ ("7" :> 55) @@ ("8" :> 56) @@ ("9" :> 57) @@
  ("A" :> 65) @@ ("B" :> 66) @@ ("C" :> 67) @@ ("D" :> 68) @@ ("E" :> 69) @@
  ("F" :> 70) @@ ("G" :> 71) @@ ("H" :> 72) @@ ("I" :> 73) @@ ("K" :> 75) @@
  ("N" :> 78) @@ ("P" :> 80) @@ ("Q" :> 81) @@ ("R" :> 82) @@ ("W" :> 87) @@
  ("X" :> 88) @@
  ("a" :> 97) @@ ("b" :> 98) @@ ("c" :> 99) @@ ("d" :> 100) @@ ("e" :> 101) @@
  ("f" :> 102) @@ ("g" :> 103) @@ ("h" :> 104) @@ ("i" :> 105) @@ ("k" :> 107) @@
  ("n" :> 110) @@ ("p" :> 112) @@ ("q" :> 113) @@ ("r" :> 114) @@ ("w" :> 119) @@
  ("x" :> 120)

\* String.fromCharCode
fromCharCode(code) == CHOOSE c \in DOMAIN CharCode : CharCode[c] = code

\* the number NaN: it is kept apart from every number a conversion can give,
\* and lessThan and greaterThan below compare it as the language does
NaN == -1000000

\* a < b and a > b on numbers: false when either is NaN
lessThan(a, b) == a # NaN /\ b # NaN /\ a < b

greaterThan(a, b) == a # NaN /\ b # NaN /\ a > b

\* a - b on numbers
minus(a, b) == IF a = NaN \/ b = NaN THEN NaN ELSE a - b

isDigit(c) == CharCode[c] >= 48 /\ CharCode[c] <= 57

\* the value of the longest prefix of decimal digits, continuing from acc
RECURSIVE digitsValue(_, _)
digitsValue(s, acc) ==
  IF s = <<>> \/ ~isDigit(Head(s)) THEN acc
  ELSE digitsValue(Tail(s), acc * 10 + (CharCode[Head(s)] - 48))

\* the string without its leading white space
RECURSIVE trimStart(_)
trimStart(s) == IF s # <<>> /\ Head(s) = " " THEN trimStart(Tail(s)) ELSE s

\* parseInt(s, 10): white space, an optional sign, then the leading digits;
\* NaN when there is no digit
parseInt(s) ==
  LET t == trimStart(s)
      negative == t # <<>> /\ Head(t) = "-"
      body == IF negative THEN Tail(t) ELSE t
  IN IF body = <<>> \/ ~isDigit(Head(body)) THEN NaN
     ELSE IF negative THEN -digitsValue(body, 0) ELSE digitsValue(body, 0)

\* Number.prototype.toString of an integer
RECURSIVE toString(_)
toString(n) ==
  IF n < 0 THEN <<"-">> \o toString(-n)
  ELSE IF n < 10 THEN <<fromCharCode(48 + n)>>
  ELSE toString(n \div 10) \o <<fromCharCode(48 + (n % 10))>>

\* String.toUpperCase and toLowerCase of one character
toUpperCase(c) ==
  IF CharCode[c] >= 97 /\ CharCode[c] <= 122 THEN fromCharCode(CharCode[c] - 32) ELSE c

toLowerCase(c) ==
  IF CharCode[c] >= 65 /\ CharCode[c] <= 90 THEN fromCharCode(CharCode[c] + 32) ELSE c

\* String.includes of one character
includes(s, c) == \E i \in 1..Len(s) : s[i] = c

\* String.split at a separator character: cur is the part being read
RECURSIVE splitAt(_, _, _)
splitAt(s, sep, cur) ==
  IF s = <<>> THEN <<cur>>
  ELSE IF Head(s) = sep THEN <<cur>> \o splitAt(Tail(s), sep, <<>>)
  ELSE splitAt(Tail(s), sep, Append(cur, Head(s)))

\* the string without its trailing white space
RECURSIVE trimEnd(_)
trimEnd(s) ==
  IF s # <<>> /\ s[Len(s)] = " " THEN trimEnd(SubSeq(s, 1, Len(s) - 1)) ELSE s

\* s.trim().split(/\s+/): the parts between runs of white space
splitWhiteSpace(s) ==
  LET t == trimEnd(trimStart(s))
      parts == splitAt(t, " ", <<>>)
      kept == {i \in 1..Len(parts) : parts[i] # <<>>}
      nth(n) == CHOOSE i \in kept : Cardinality({j \in kept : j <= i}) = n
  IN IF t = <<>> THEN << <<>> >>
     ELSE [n \in 1..Cardinality(kept) |-> parts[nth(n)]]

\* ------------------------------------------------------------------ PositionUtils

\* toAlgebraic had the rank been written as it is held, from 0
toAlgebraicRankFromZero(pos) == <<fromCharCode(97 + pos.file)>> \o toString(pos.rank)

toAlgebraic(pos) == <<fromCharCode(97 + pos.file)>> \o toString(pos.rank + 1)

\* the position fromAlgebraic returns, or NoPosition when it throws
\* 'Invalid algebraic notation'
fromAlgebraic(notation) ==
  IF Len(notation) # 2 THEN NoPosition
  ELSE LET file == CharCode[notation[1]] - 97
           rank == minus(parseInt(<<notation[2]>>), 1)
       IN IF lessThan(file, 0) \/ greaterThan(file, 7) \/ lessThan(rank, 0) \/ greaterThan(rank, 7)
          THEN NoPosition
          ELSE Position(file, rank)

fromAlgebraicThrows(notation) == fromAlgebraic(notation) = NoPosition

\* ------------------------------------------------------------------ Piece

Piece(type, color, position, hasMoved) ==
  [type |-> type, color |-> color, position |-> position, hasMoved |-> hasMoved]

\* getPiece's undefined
NoPiece == [type |-> "none", color |-> "none", position |-> NoPosition, hasMoved |-> FALSE]

\* moveTo had the hasMoved flag been carried over instead of set
moveToKeepsFlag(piece, newPosition) ==
  Piece(piece.type, piece.color, newPosition, piece.hasMoved)

moveTo(piece, newPosition) == Piece(piece.type, piece.color, newPosition, TRUE)

\* promote had it thrown for a non-pawn only
promoteThrowsForNonPawn(piece, newType) == piece.type # Pawn

\* promote throws for a non-pawn and for a promotion to pawn or king
promoteThrows(piece, newType) == piece.type # Pawn \/ newType = Pawn \/ newType = King

promote(piece, newType) == Piece(newType, piece.color, piece.position, TRUE)

\* ------------------------------------------------------------------ Board

\* new Map()
EmptyBoard == <<>>

\* the Map key `${pos.file},${pos.rank}`, as a number
getPositionKey(pos) == pos.file * 100 + pos.rank

getPiece(board, pos) ==
  IF getPositionKey(pos) \in DOMAIN board THEN board[getPositionKey(pos)] ELSE NoPiece

setPiece(board, piece) ==
  [k \in DOMAIN board \cup {getPositionKey(piece.position)} |->
     IF k = getPositionKey(piece.position) THEN piece ELSE board[k]]

removePiece(board, pos) ==
  [k \in DOMAIN board \ {getPositionKey(pos)} |-> board[k]]

\* Board.movePiece throws when no piece stands on from
movePieceThrows(board, from) == getPiece(board, from) = NoPiece

movePiece(board, from, to) ==
  setPiece(removePiece(board, from), moveTo(getPiece(board, from), to))

isEmpty(board, pos) == getPiece(board, pos) = NoPiece

isOpponentPiece(board, pos, color) ==
  getPiece(board, pos) # NoPiece /\ getPiece(board, pos).color # color

getAllPieces(board) == {board[k] : k \in DOMAIN board}

getPiecesByColor(board, color) == {p \in getAllPieces(board) : p.color = color}

\* the first king of the colour in the Map's order; unique on the boards here
getKing(board, color) ==
  LET kings == {p \in getAllPieces(board) : p.type = King /\ p.color = color}
  IN IF kings = {} THEN NoPiece ELSE CHOOSE k \in kings : TRUE

\* the contents of the Board that Board.clone returns: a clone of every piece
clone(board) ==
  [k \in DOMAIN board |->
     Piece(board[k].type, board[k].color, board[k].position, board[k].hasMoved)]

\* new Board(pieces): setPiece of every piece, in order
RECURSIVE BoardOf(_)
BoardOf(pieces) ==
  IF pieces = <<>> THEN EmptyBoard
  ELSE setPiece(BoardOf(SubSeq(pieces, 1, Len(pieces) - 1)), pieces[Len(pieces)])

\* Piece.getNotation: the letter of the piece, empty for a pawn
getNotation(piece) ==
  CASE piece.type = King -> <<"K">>
    [] piece.type = Queen -> <<"Q">>
    [] piece.type = Rook -> <<"R">>
    [] piece.type = Bishop -> <<"B">>
    [] piece.type = Knight -> <<"N">>
    [] piece.type = Pawn -> <<>>

\* Board.toFEN, the characters of one square onward: the rest of the rank
\* from the file on, emptyCount empty squares having been passed
RECURSIVE rankToFEN(_, _, _, _)
rankToFEN(board, rank, file, emptyCount) ==
  IF file = 8 THEN (IF emptyCount > 0 THEN toString(emptyCount) ELSE <<>>)
  ELSE LET piece == getPiece(board, Position(file, rank))
       IN IF piece # NoPiece
          THEN (IF emptyCount > 0 THEN toString(emptyCount) ELSE <<>>)
               \o (LET notation == IF getNotation(piece) # <<>> THEN getNotation(piece) ELSE <<"P">>
                   IN IF piece.color = White THEN notation ELSE <<toLowerCase(notation[1])>>)
               \o rankToFEN(board, rank, file + 1, 0)
          ELSE rankToFEN(board, rank, file + 1, emptyCount + 1)

\* Board.toFEN: the ranks from 7 down to rank, separated by '/'
RECURSIVE ranksToFEN(_, _)
ranksToFEN(board, rank) ==
  rankToFEN(board, rank, 0, 0)
    \o (IF rank > 0 THEN <<"/">> \o ranksToFEN(board, rank - 1) ELSE <<>>)

BoardToFEN(board) == ranksToFEN(board, 7)

\* pieceTypeOf had the letters of bishop and knight been exchanged
pieceTypeOfMinorsExchanged(pieceChar) ==
  CASE pieceChar = "K" -> King
    [] pieceChar = "Q" -> Queen
    [] pieceChar = "R" -> Rook
    [] pieceChar = "B" -> Knight
    [] pieceChar = "N" -> Bishop
    [] pieceChar = "P" -> Pawn
    [] OTHER -> "none"

\* the piece type of a letter of the placement, "none" for any other character
pieceTypeOf(pieceChar) ==
  CASE pieceChar = "K" -> King
    [] pieceChar = "Q" -> Queen
    [] pieceChar = "R" -> Rook
    [] pieceChar = "B" -> Bishop
    [] pieceChar = "N" -> Knight
    [] pieceChar = "P" -> Pawn
    [] OTHER -> "none"

\* Board.fromFEN: hasMoved of a piece read from the placement
fenHasMoved(pieceType, color, file, rank, castlingRights) ==
  LET canWhiteCastleKingside == includes(castlingRights, "K")
      canWhiteCastleQueenside == includes(castlingRights, "Q")
      canBlackCastleKingside == includes(castlingRights, "k")
      canBlackCastleQueenside == includes(castlingRights, "q")
  IN CASE pieceType = King ->
            IF color = White /\ file = 4 /\ rank = 0
            THEN ~(canWhiteCastleKingside \/ canWhiteCastleQueenside)
            ELSE IF color = Black /\ file = 4 /\ rank = 7
            THEN ~(canBlackCastleKingside \/ canBlackCastleQueenside)
            ELSE TRUE
       [] pieceType = Rook ->
            IF color = White /\ rank = 0
            THEN (IF file = 7 THEN ~canWhiteCastleKingside
                  ELSE IF file = 0 THEN ~canWhiteCastleQueenside ELSE TRUE)
            ELSE IF color = Black /\ rank = 7
            THEN (IF file = 7 THEN ~canBlackCastleKingside
                  ELSE IF file = 0 THEN ~canBlackCastleQueenside ELSE TRUE)
            ELSE TRUE
       [] pieceType = Pawn ->
            ~((color = White /\ rank = 1) \/ (color = Black /\ rank = 6))
       [] OTHER -> TRUE

\* what Board.fromFEN has read: the pieces so far, or the error it threw
FenRead(error, pieces) == [error |-> error, pieces |-> pieces]

\* Board.fromFEN, one row from its character i on, standing at the file
RECURSIVE readRow(_, _, _, _, _, _)
readRow(row, i, rank, file, castlingRights, pieces) ==
  IF i > Len(row)
  THEN (IF file # 8 THEN FenRead("Invalid FEN: rank has wrong number of squares", pieces)
        ELSE FenRead(Undefined, pieces))
  ELSE LET char == row[i]
       IN IF CharCode[char] >= CharCode["1"] /\ CharCode[char] <= CharCode["8"]
          THEN readRow(row, i + 1, rank, file + parseInt(<<char>>), castlingRights, pieces)
          ELSE LET color == IF char = toUpperCase(char) THEN White ELSE Black
                   pieceType == pieceTypeOf(toUpperCase(char))
               IN IF pieceType = "none" THEN FenRead("Invalid FEN: unknown piece", pieces)
                  ELSE readRow(row, i + 1, rank, file + 1, castlingRights,
                               Append(pieces, Piece(pieceType, color, Position(file, rank),
                                                    fenHasMoved(pieceType, color, file, rank, castlingRights))))

\* Board.fromFEN, the rows of the ranks from rank down to 0
RECURSIVE readRows(_, _, _, _)
readRows(rows, rank, castlingRights, pieces) ==
  IF rank < 0 THEN FenRead(Undefined, pieces)
  ELSE LET read == readRow(rows[7 - rank + 1], 1, rank, 0, castlingRights, pieces)
       IN IF read.error # Undefined THEN read
          ELSE readRows(rows, rank - 1, castlingRights, read.pieces)

\* Board.fromFEN: the error thrown (Undefined if none) and the board returned
BoardFromFEN(fen, castlingRights) ==
  LET rows == splitAt(fen, "/", <<>>)
  IN IF Len(rows) # 8 THEN [error |-> "Invalid FEN: must have 8 ranks", board |-> EmptyBoard]
     ELSE LET read == readRows(rows, 7, castlingRights, <<>>)
          IN [error |-> read.error,
              board |-> IF read.error = Undefined THEN BoardOf(read.pieces) ELSE EmptyBoard]

\* ------------------------------------------------------------------ piece rules

\* StepMoves had a square held by an own piece been taken too
StepMovesOntoOwn(piece, board, offsets) ==
  LET cand == [i \in 1..Len(offsets) |->
                 Position(piece.position.file + offsets[i][1],
                          piece.position.rank + offsets[i][2])]
  IN SelectSeq(cand, isValid)

\* the offsets that are on the board and not occupied by an own piece
StepMoves(piece, board, offsets) ==
  LET cand == [i \in 1..Len(offsets) |->
                 Position(piece.position.file + offsets[i][1],
                          piece.position.rank + offsets[i][2])]
      ok(pos) == isValid(pos) /\
                 (getPiece(board, pos) = NoPiece \/ getPiece(board, pos).color # piece.color)
  IN SelectSeq(cand, ok)

knightMoves == << <<2, 1>>, <<2, -1>>, <<-2, 1>>, <<-2, -1>>,
                  <<1, 2>>, <<1, -2>>, <<-1, 2>>, <<-1, -2>> >>

KnightRules(piece, board) == StepMoves(piece, board, knightMoves)

kingMoves == << <<1, 0>>, <<-1, 0>>, <<0, 1>>, <<0, -1>>,
                <<1, 1>>, <<1, -1>>, <<-1, 1>>, <<-1, -1>> >>

KingRules(piece, board) == StepMoves(piece, board, kingMoves)

\* the while loop of getDiagonalMoves / getStraightMoves for one direction
RECURSIVE RayWalk(_, _, _, _, _, _)
RayWalk(board, color, currentFile, currentRank, df, dr) ==
  IF ~(currentFile >= 0 /\ currentFile <= 7 /\ currentRank >= 0 /\ currentRank <= 7)
  THEN <<>>
  ELSE LET pos == Position(currentFile, currentRank)
           targetPiece == getPiece(board, pos)
       IN IF targetPiece = NoPiece
          THEN <<pos>> \o RayWalk(board, color, currentFile + df, currentRank + dr, df, dr)
          ELSE IF targetPiece.color # color THEN <<pos>> ELSE <<>>

RECURSIVE RayMoves(_, _, _)
RayMoves(piece, board, directions) ==
  IF directions = <<>> THEN <<>>
  ELSE RayWalk(board, piece.color,
               piece.position.file + directions[1][1],
               piece.position.rank + directions[1][2],
               directions[1][1], directions[1][2])
       \o RayMoves(piece, board, Tail(directions))

diagonalDirections == << <<1, 1>>, <<1, -1>>, <<-1, 1>>, <<-1, -1>> >>

straightDirections == << <<1, 0>>, <<-1, 0>>, <<0, 1>>, <<0, -1>> >>

\* getDiagonalMoves had the last direction been left out
getDiagonalMovesThreeRays(piece, board) == RayMoves(piece, board, SubSeq(diagonalDirections, 1, 3))

getDiagonalMoves(piece, board) == RayMoves(piece, board, diagonalDirections)

getStraightMoves(piece, board) == RayMoves(piece, board, straightDirections)

BishopRules(piece, board) == getDiagonalMoves(piece, board)

RookRules(piece, board) == getStraightMoves(piece, board)

QueenRules(piece, board) == getStraightMoves(piece, board) \o getDiagonalMoves(piece, board)

\* PawnRules had the double move not been nested in the forward move
PawnRulesDoubleApart(piece, board) ==
  LET direction == IF piece.color = White THEN 1 ELSE -1
      startRank == IF piece.color = White THEN 1 ELSE 6
      file == piece.position.file
      rank == piece.position.rank
      oneForward == Position(file, rank + direction)
      twoForward == Position(file, rank + 2 * direction)
      forward ==
        (IF isValid(oneForward) /\ isEmpty(board, oneForward) THEN <<oneForward>> ELSE <<>>) \o
        (IF rank = startRank /\ isEmpty(board, twoForward) THEN <<twoForward>> ELSE <<>>)
      captureFiles == <<file - 1, file + 1>>
      capturePos == [i \in 1..2 |-> Position(captureFiles[i], rank + direction)]
      ok(pos) == isValid(pos) /\ isOpponentPiece(board, pos, piece.color)
  IN forward \o SelectSeq(capturePos, ok)

PawnRules(piece, board) ==
  LET direction == IF piece.color = White THEN 1 ELSE -1
      startRank == IF piece.color = White THEN 1 ELSE 6
      file == piece.position.file
      rank == piece.position.rank
      oneForward == Position(file, rank + direction)
      twoForward == Position(file, rank + 2 * direction)
      forward ==
        IF isValid(oneForward) /\ isEmpty(board, oneForward)
        THEN <<oneForward>> \o
             (IF rank = startRank /\ isEmpty(board, twoForward) THEN <<twoForward>> ELSE <<>>)
        ELSE <<>>
      captureFiles == <<file - 1, file + 1>>
      capturePos == [i \in 1..2 |-> Position(captureFiles[i], rank + direction)]
      ok(pos) == isValid(pos) /\ isOpponentPiece(board, pos, piece.color)
  IN forward \o SelectSeq(capturePos, ok)

\* PieceRulesFactory.getPossibleMoves
getPossibleMoves(piece, board) ==
  CASE piece.type = Pawn -> PawnRules(piece, board)
    [] piece.type = Knight -> KnightRules(piece, board)
    [] piece.type = Bishop -> BishopRules(piece, board)
    [] piece.type = Rook -> RookRules(piece, board)
    [] piece.type = Queen -> QueenRules(piece, board)
    [] piece.type = King -> KingRules(piece, board)

\* Array.some(equals) / the elements of an array
Range(seq) == {seq[i] : i \in 1..Len(seq)}

\* ------------------------------------------------------------------ Move

Move(from, to, piece, capturedPiece, specialMove, promotionType) ==
  [from |-> from, to |-> to, piece |-> piece, capturedPiece |-> capturedPiece,
   specialMove |-> specialMove, promotionType |-> promotionType]

\* an absent Move (MoveResult.move, Array.find's undefined)
NoMove == Move(NoPosition, NoPosition, NoPiece, NoPiece, SpecialNone, Undefined)

isCastling(move) ==
  move.specialMove = CastleKingside \/ move.specialMove = CastleQueenside

isEnPassant(move) == move.specialMove = EnPassant

isPromotion(move) == move.specialMove = PawnPromotion

\* ------------------------------------------------------------------ GameRules

\* isSquareAttacked had the opposing king not counted as an attacker
isSquareAttackedNotByKing(board, position, defenderColor) ==
  LET attackerColor == opposite(defenderColor)
  IN \E attacker \in {p \in getPiecesByColor(board, attackerColor) : p.type # King} :
       \E move \in Range(getPossibleMoves(attacker, board)) : move = position

isSquareAttacked(board, position, defenderColor) ==
  LET attackerColor == opposite(defenderColor)
  IN \E attacker \in getPiecesByColor(board, attackerColor) :
       \E move \in Range(getPossibleMoves(attacker, board)) : move = position

isInCheck(board, color) ==
  LET king == getKing(board, color)
  IN IF king = NoPiece THEN FALSE
     ELSE isSquareAttacked(board, king.position, color)

\* GameRules.applyMove, on the clone made by isMoveLegal
RulesApplyMove(board, move) ==
  LET b1 == removePiece(board, move.from)
      b2 == IF move.capturedPiece # NoPiece
            THEN removePiece(b1, move.capturedPiece.position) ELSE b1
  IN setPiece(b2, moveTo(move.piece, move.to))

\* isMoveLegal had the check of the opponent's king been tested
isMoveLegalOfOpponent(move, board) ==
  LET testBoard == RulesApplyMove(clone(board), move)
  IN ~isInCheck(testBoard, opposite(move.piece.color))

isMoveLegal(move, board) ==
  LET testBoard == RulesApplyMove(clone(board), move)
  IN ~isInCheck(testBoard, move.piece.color)

\* getCastlingMoves had it not tested the king's squares for attack
getCastlingMovesUntested(king, board) ==
  IF king.type # King \/ king.hasMoved THEN <<>>
  ELSE
    LET rank == king.position.rank
        kingsideRook == getPiece(board, Position(7, rank))
        queensideRook == getPiece(board, Position(0, rank))
        kingside ==
          IF /\ kingsideRook # NoPiece
             /\ kingsideRook.type = Rook
             /\ ~kingsideRook.hasMoved
             /\ isEmpty(board, Position(5, rank))
             /\ isEmpty(board, Position(6, rank))
          THEN <<Move(king.position, Position(6, rank), king, NoPiece,
                      CastleKingside, Undefined)>>
          ELSE <<>>
        queenside ==
          IF /\ queensideRook # NoPiece
             /\ queensideRook.type = Rook
             /\ ~queensideRook.hasMoved
             /\ isEmpty(board, Position(1, rank))
             /\ isEmpty(board, Position(2, rank))
             /\ isEmpty(board, Position(3, rank))
          THEN <<Move(king.position, Position(2, rank), king, NoPiece,
                      CastleQueenside, Undefined)>>
          ELSE <<>>
    IN kingside \o queenside

getCastlingMoves(king, board) ==
  IF king.type # King \/ king.hasMoved THEN <<>>
  ELSE
    LET rank == king.position.rank
        kingsideRook == getPiece(board, Position(7, rank))
        queensideRook == getPiece(board, Position(0, rank))
        kingside ==
          IF /\ kingsideRook # NoPiece
             /\ kingsideRook.type = Rook
             /\ ~kingsideRook.hasMoved
             /\ isEmpty(board, Position(5, rank))
             /\ isEmpty(board, Position(6, rank))
             /\ \A file \in {4, 5, 6} :
                  ~isSquareAttacked(board, Position(file, rank), king.color)
          THEN <<Move(king.position, Position(6, rank), king, NoPiece,
                      CastleKingside, Undefined)>>
          ELSE <<>>
        queenside ==
          IF /\ queensideRook # NoPiece
             /\ queensideRook.type = Rook
             /\ ~queensideRook.hasMoved
             /\ isEmpty(board, Position(1, rank))
             /\ isEmpty(board, Position(2, rank))
             /\ isEmpty(board, Position(3, rank))
             /\ \A file \in {4, 3, 2} :
                  ~isSquareAttacked(board, Position(file, rank), king.color)
          THEN <<Move(king.position, Position(2, rank), king, NoPiece,
                      CastleQueenside, Undefined)>>
          ELSE <<>>
    IN kingside \o queenside

\* the Move or NoMove (null)
getEnPassantMove(pawn, board, enPassantTarget) ==
  IF pawn.type # Pawn THEN NoMove
  ELSE
    LET direction == IF pawn.color = White THEN 1 ELSE -1
        captureFiles == <<pawn.position.file - 1, pawn.position.file + 1>>
        capturedPawn == getPiece(board, Position(enPassantTarget.file, pawn.position.rank))
        move == Move(pawn.position, enPassantTarget, pawn, capturedPawn,
                     EnPassant, Undefined)
    IN IF \E i \in 1..2 :
            /\ captureFiles[i] = enPassantTarget.file
            /\ pawn.position.rank + direction = enPassantTarget.rank
            /\ capturedPawn # NoPiece
            /\ capturedPawn.type = Pawn
            /\ isMoveLegal(move, board)
       THEN move ELSE NoMove

\* the candidate Move to each pseudo-legal destination
MovesTo(piece, board, pseudoLegalMoves) ==
  [i \in 1..Len(pseudoLegalMoves) |->
     Move(piece.position, pseudoLegalMoves[i], piece,
          getPiece(board, pseudoLegalMoves[i]), SpecialNone, Undefined)]

\* if (enPassantMove) legalMoves.push(enPassantMove)
Pushed(move) == IF move # NoMove THEN <<move>> ELSE <<>>

getLegalMoves(piece, board, enPassantTarget) ==
  LET legal(m) == isMoveLegal(m, board)
  IN SelectSeq(MovesTo(piece, board, getPossibleMoves(piece, board)), legal)
     \o (IF piece.type = King THEN getCastlingMoves(piece, board) ELSE <<>>)
     \o (IF piece.type = Pawn /\ enPassantTarget # NoPosition
         THEN Pushed(getEnPassantMove(piece, board, enPassantTarget)) ELSE <<>>)

\* the pieces of a colour in a fixed order (the Map's order is not modelled)
RECURSIVE SeqOfSet(_)
SeqOfSet(S) ==
  IF S = {} THEN <<>>
  ELSE LET x == CHOOSE y \in S : TRUE IN <<x>> \o SeqOfSet(S \ {x})

RECURSIVE ConcatLegal(_, _, _)
ConcatLegal(pieces, board, enPassantTarget) ==
  IF pieces = <<>> THEN <<>>
  ELSE getLegalMoves(pieces[1], board, enPassantTarget)
       \o ConcatLegal(Tail(pieces), board, enPassantTarget)

getAllLegalMoves(board, color, enPassantTarget) ==
  ConcatLegal(SeqOfSet(getPiecesByColor(board, color)), board, enPassantTarget)

isCheckmate(board, color, enPassantTarget) ==
  IF ~isInCheck(board, color) THEN FALSE
  ELSE Len(getAllLegalMoves(board, color, enPassantTarget)) = 0

isStalemate(board, color, enPassantTarget) ==
  IF isInCheck(board, color) THEN FALSE
  ELSE Len(getAllLegalMoves(board, color, enPassantTarget)) = 0

\* hasInsufficientMaterial had two bishops counted whatever their squares
hasInsufficientMaterialAnyBishops(board) ==
  LET pieces == getAllPieces(board)
      nonKings == {p \in pieces : p.type # King}
      bishops == {p \in pieces : p.type = Bishop}
  IN IF Cardinality(pieces) = 2 THEN TRUE
     ELSE IF Cardinality(pieces) = 3 /\ Cardinality(nonKings) = 1
     THEN \E p \in nonKings : p.type = Bishop \/ p.type = Knight
     ELSE Cardinality(pieces) = 4 /\ Cardinality(bishops) = 2

hasInsufficientMaterial(board) ==
  LET pieces == getAllPieces(board)
      nonKings == {p \in pieces : p.type # King}
      bishops == {p \in pieces : p.type = Bishop}
      square(p) == (p.position.file + p.position.rank) % 2
  IN IF Cardinality(pieces) = 2 THEN TRUE
     ELSE IF Cardinality(pieces) = 3 /\ Cardinality(nonKings) = 1
     THEN \E p \in nonKings : p.type = Bishop \/ p.type = Knight
     ELSE IF Cardinality(pieces) = 4 /\ Cardinality(bishops) = 2
     THEN \A p \in bishops, q \in bishops : square(p) = square(q)
     ELSE FALSE

\* ------------------------------------------------------------------ GameState

FiftyMoveLimit == 100

GameState(board, currentTurn, moveHistory, enPassantTarget, halfMoveClock, fullMoveNumber, result, endReason) ==
  [board |-> board, currentTurn |-> currentTurn, moveHistory |-> moveHistory,
   enPassantTarget |-> enPassantTarget, halfMoveClock |-> halfMoveClock,
   fullMoveNumber |-> fullMoveNumber, result |-> result, endReason |-> endReason]

\* an absent GameState (MoveResult.newState)
NoState == GameState(0, "none", <<>>, NoPosition, 0, 0, "none", Undefined)

\* the number of Board objects the heap holds
NumBoards == 4

BoardIds == 1..NumBoards

\* AllocBoard had applyMove worked on this.board instead of a clone of it
AllocBoardInPlace(live) == CHOOSE id \in BoardIds : id \in live

\* the identity of the Board object that Board.clone returns: a new object
AllocBoard(live) == CHOOSE id \in BoardIds : id \notin live

\* applyCastling had the rook been left in its corner
applyCastlingKingOnly(board, move) ==
  setPiece(removePiece(board, move.from), moveTo(move.piece, move.to))

applyCastling(board, move) ==
  LET rank == move.from.rank
      b1 == setPiece(removePiece(board, move.from), moveTo(move.piece, move.to))
      rookFile == IF move.specialMove = CastleKingside THEN 7 ELSE 0
      rookTo == IF move.specialMove = CastleKingside THEN 5 ELSE 3
      rook == getPiece(b1, Position(rookFile, rank))
  IN IF rook # NoPiece
     THEN setPiece(removePiece(b1, Position(rookFile, rank)),
                   moveTo(rook, Position(rookTo, rank)))
     ELSE b1

applyEnPassant(board, move) ==
  LET b1 == setPiece(removePiece(board, move.from), moveTo(move.piece, move.to))
  IN IF move.capturedPiece # NoPiece
     THEN removePiece(b1, move.capturedPiece.position) ELSE b1

\* applyPromotion had it placed the moved pawn instead of the promoted piece
applyPromotionKeepsPawn(board, move) ==
  LET b1 == removePiece(board, move.from)
      b2 == IF move.capturedPiece # NoPiece
            THEN removePiece(b1, move.capturedPiece.position) ELSE b1
  IN setPiece(b2, moveTo(move.piece, move.to))

\* applyPromotion when promote does not throw
applyPromotion(board, move) ==
  LET b1 == removePiece(board, move.from)
      b2 == IF move.capturedPiece # NoPiece
            THEN removePiece(b1, move.capturedPiece.position) ELSE b1
  IN IF move.promotionType # Undefined
     THEN setPiece(b2, moveTo(promote(move.piece, move.promotionType), move.to))
     ELSE b2

applyNormal(board, move) ==
  LET b1 == removePiece(board, move.from)
      b2 == IF move.capturedPiece # NoPiece
            THEN removePiece(b1, move.capturedPiece.position) ELSE b1
  IN setPiece(b2, moveTo(move.piece, move.to))

\* checkGameEnd had the stalemate test been left out
checkGameEndWithoutStalemate(board, currentTurn, enPassantTarget, halfMoveClock) ==
  IF isCheckmate(board, currentTurn, enPassantTarget)
  THEN [result |-> IF currentTurn = White THEN BlackWin ELSE WhiteWin,
        endReason |-> Checkmate]
  ELSE IF hasInsufficientMaterial(board)
  THEN [result |-> Draw, endReason |-> InsufficientMaterial]
  ELSE IF halfMoveClock >= FiftyMoveLimit
  THEN [result |-> Draw, endReason |-> FiftyMoveRule]
  ELSE [result |-> InProgress, endReason |-> Undefined]

\* checkGameEnd had the fifty-move rule been tested first
checkGameEndFiftyFirst(board, currentTurn, enPassantTarget, halfMoveClock) ==
  IF halfMoveClock >= FiftyMoveLimit
  THEN [result |-> Draw, endReason |-> FiftyMoveRule]
  ELSE IF isCheckmate(board, currentTurn, enPassantTarget)
  THEN [result |-> IF currentTurn = White THEN BlackWin ELSE WhiteWin,
        endReason |-> Checkmate]
  ELSE IF isStalemate(board, currentTurn, enPassantTarget)
  THEN [result |-> Draw, endReason |-> Stalemate]
  ELSE IF hasInsufficientMaterial(board)
  THEN [result |-> Draw, endReason |-> InsufficientMaterial]
  ELSE [result |-> InProgress, endReason |-> Undefined]

checkGameEnd(board, currentTurn, enPassantTarget, halfMoveClock) ==
  IF isCheckmate(board, currentTurn, enPassantTarget)
  THEN [result |-> IF currentTurn = White THEN BlackWin ELSE WhiteWin,
        endReason |-> Checkmate]
  ELSE IF isStalemate(board, currentTurn, enPassantTarget)
  THEN [result |-> Draw, endReason |-> Stalemate]
  ELSE IF hasInsufficientMaterial(board)
  THEN [result |-> Draw, endReason |-> InsufficientMaterial]
  ELSE IF halfMoveClock >= FiftyMoveLimit
  THEN [result |-> Draw, endReason |-> FiftyMoveRule]
  ELSE [result |-> InProgress, endReason |-> Undefined]

\* the mutation of the cloned board by GameState.applyMove
applyToBoard(board, move) ==
  IF isCastling(move) THEN applyCastling(board, move)
  ELSE IF isEnPassant(move) THEN applyEnPassant(board, move)
  ELSE IF isPromotion(move) THEN applyPromotion(board, move)
  ELSE applyNormal(board, move)

\* whether GameState.applyMove throws (Piece.promote, from applyPromotion)
applyMoveThrows(move) ==
  isPromotion(move) /\ move.promotionType # Undefined
    /\ promoteThrows(move.piece, move.promotionType)

abs(n) == IF n < 0 THEN -n ELSE n

\* const { result, endReason } = checkGameEnd(...); new GameState(..., result, endReason)
Ended(state, end) == [state EXCEPT !.result = end.result, !.endReason = end.endReason]

\* newEnPassantTarget had the test for a pawn been left out
newEnPassantTargetAnyPiece(move) ==
  IF abs(move.to.rank - move.from.rank) = 2
  THEN Position(move.from.file, (move.from.rank + move.to.rank) \div 2)
  ELSE NoPosition

\* "Set en passant target for pawn double moves"
newEnPassantTarget(move) ==
  IF move.piece.type = Pawn /\ abs(move.to.rank - move.from.rank) = 2
  THEN Position(move.from.file, (move.from.rank + move.to.rank) \div 2)
  ELSE NoPosition

\* "Reset half-move clock on pawn move or capture"
\* newHalfMoveClock had only pawn moves reset the clock
newHalfMoveClockPawnOnly(this, move) ==
  IF move.piece.type = Pawn THEN 0 ELSE this.halfMoveClock + 1

newHalfMoveClock(this, move) ==
  IF move.piece.type = Pawn \/ move.capturedPiece # NoPiece
  THEN 0 ELSE this.halfMoveClock + 1

newMoveHistory(this, move) == Append(this.moveHistory, move)

\* newFullMoveNumber had every move advanced the number
newFullMoveNumberEveryMove(this) == this.fullMoveNumber + 1

newFullMoveNumber(this) ==
  IF this.currentTurn = Black THEN this.fullMoveNumber + 1 ELSE this.fullMoveNumber

\* newCurrentTurn had the turn not been flipped
newCurrentTurnKept(this) == this.currentTurn

newCurrentTurn(this) == opposite(this.currentTurn)

\* GameState.applyMove on the heap hp: the new GameState and the heap after it
applyMove(this, move, hp) ==
  LET newBoard == AllocBoard({this.board})
      hp1 == [hp EXCEPT ![newBoard] = clone(hp[this.board])]
      hp2 == [hp1 EXCEPT ![newBoard] = applyToBoard(hp1[newBoard], move)]
  IN [state |-> Ended(GameState(newBoard, newCurrentTurn(this), newMoveHistory(this, move),
                                newEnPassantTarget(move), newHalfMoveClock(this, move),
                                newFullMoveNumber(this), InProgress, Undefined),
                      checkGameEnd(hp2[newBoard], newCurrentTurn(this),
                                   newEnPassantTarget(move), newHalfMoveClock(this, move))),
      heap |-> hp2]

getLegalMovesForPiece(this, piece, hp) ==
  IF piece.color # this.currentTurn THEN <<>>
  ELSE getLegalMoves(piece, hp[this.board], this.enPassantTarget)

\* Array.find: the first legal move with the destination, or NoMove
find(legalMoves, to) ==
  LET hits == {i \in 1..Len(legalMoves) : legalMoves[i].to = to}
  IN IF hits = {} THEN NoMove
     ELSE legalMoves[CHOOSE i \in hits : \A j \in hits : i <= j]

MoveResult(success, error, move, newState, check, mate, stale, thrown) ==
  [success |-> success, error |-> error, move |-> move, newState |-> newState,
   isCheck |-> check, isCheckmate |-> mate, isStalemate |-> stale,
   thrown |-> thrown]

Failure(error) == MoveResult(FALSE, error, NoMove, NoState, FALSE, FALSE, FALSE, FALSE)

\* no MoveResult: the call threw
Thrown(error) == MoveResult(FALSE, error, NoMove, NoState, FALSE, FALSE, FALSE, TRUE)

\* no makeMove has been called (or the last call was not a makeMove)
NoResult == MoveResult(FALSE, Undefined, NoMove, NoState, FALSE, FALSE, FALSE, FALSE)

\* Accepted had isStalemate been set for every draw
AcceptedEveryDrawStalemate(move, applied) ==
  [result |->
     MoveResult(TRUE, Undefined, move, applied.state,
                isInCheck(applied.heap[applied.state.board], applied.state.currentTurn),
                applied.state.result = WhiteWin \/ applied.state.result = BlackWin,
                applied.state.result = Draw,
                FALSE),
   heap |-> applied.heap]

\* makeMove from "Apply the move and create new game state": the MoveResult of
\* an accepted move and the heap after it
Accepted(move, applied) ==
  [result |->
     MoveResult(TRUE, Undefined, move, applied.state,
                isInCheck(applied.heap[applied.state.board], applied.state.currentTurn),
                applied.state.result = WhiteWin \/ applied.state.result = BlackWin,
                applied.state.result = Draw /\ applied.state.endReason = Stalemate,
                FALSE),
   heap |-> applied.heap]

\* makeMove from "Handle pawn promotion", found being the legal move that
\* legalMoves.find returned
Promoted(this, from, to, promotionType, hp, piece, found) ==
  LET promoting ==
        piece.type = Pawn /\
          ((piece.color = White /\ to.rank = 7) \/ (piece.color = Black /\ to.rank = 0))
      move == IF promoting
              THEN Move(from, to, piece, found.capturedPiece, PawnPromotion, promotionType)
              ELSE found
  IN IF found = NoMove
     THEN [result |-> Failure("Illegal move"), heap |-> hp]
     ELSE IF promoting /\ promotionType = Undefined
     THEN [result |-> Failure("Promotion type required"), heap |-> hp]
     ELSE IF applyMoveThrows(move)
     THEN [result |-> Thrown("Cannot promote to pawn or king"), heap |-> hp]
     ELSE Accepted(move, applyMove(this, move, hp))

\* GameState.makeMove on the heap hp: the MoveResult and the heap after it
makeMove(this, from, to, promotionType, hp) ==
  LET piece == getPiece(hp[this.board], from)
  IN IF piece = NoPiece
     THEN [result |-> Failure("No piece at source position"), heap |-> hp]
     ELSE IF piece.color # this.currentTurn
     THEN [result |-> Failure("Not your turn"), heap |-> hp]
     ELSE Promoted(this, from, to, promotionType, hp, piece,
                   find(getLegalMovesForPiece(this, piece, hp), to))

\* makeMove in steps, as two calls against one GameState would interleave
\* them. The first step is makeMove up to the call of applyMove: the result
\* if the call is rejected there (NoResult otherwise) and the move to apply,
\* found being the legal move that legalMoves.find returned
SearchedWith(piece, from, to, promotionType, found) ==
  LET promoting ==
        piece.type = Pawn /\
          ((piece.color = White /\ to.rank = 7) \/ (piece.color = Black /\ to.rank = 0))
  IN IF found = NoMove THEN [result |-> Failure("Illegal move"), move |-> NoMove]
     ELSE IF promoting /\ promotionType = Undefined
     THEN [result |-> Failure("Promotion type required"), move |-> NoMove]
     ELSE [result |-> NoResult,
           move |-> IF promoting
                    THEN Move(from, to, piece, found.capturedPiece, PawnPromotion, promotionType)
                    ELSE found]

Searched(this, from, to, promotionType, hp) ==
  LET piece == getPiece(hp[this.board], from)
  IN IF piece = NoPiece
     THEN [result |-> Failure("No piece at source position"), move |-> NoMove]
     ELSE IF piece.color # this.currentTurn
     THEN [result |-> Failure("Not your turn"), move |-> NoMove]
     ELSE SearchedWith(piece, from, to, promotionType,
                       find(getLegalMovesForPiece(this, piece, hp), to))

\* cloneTarget had applyMove worked on this.board itself
cloneTargetShared(this, live) == this.board

\* const newBoard = this.board.clone(): the Board object the clone is
cloneTarget(this, live) == AllocBoard(live)

\* applyMove from "Reset half-move clock" on: the new GameState, its result
\* and endReason found by checkGameEnd on the mutated clone
Detected(this, move, newBoard, hp) ==
  Ended(GameState(newBoard, newCurrentTurn(this), newMoveHistory(this, move),
                  newEnPassantTarget(move), newHalfMoveClock(this, move),
                  newFullMoveNumber(this), InProgress, Undefined),
        checkGameEnd(hp[newBoard], newCurrentTurn(this),
                     newEnPassantTarget(move), newHalfMoveClock(this, move)))

\* resign had the endReason argument been left out
resignNoReason(this) ==
  GameState(this.board, this.currentTurn, this.moveHistory, this.enPassantTarget,
            this.halfMoveClock, this.fullMoveNumber,
            IF this.currentTurn = White THEN BlackWin ELSE WhiteWin, Undefined)

resign(this) ==
  GameState(this.board, this.currentTurn, this.moveHistory, this.enPassantTarget,
            this.halfMoveClock, this.fullMoveNumber,
            IF this.currentTurn = White THEN BlackWin ELSE WhiteWin, Resignation)

\* agreeToDraw had the draw started the half-move clock afresh
agreeToDrawResetsClock(this) ==
  GameState(this.board, this.currentTurn, this.moveHistory, this.enPassantTarget,
            0, this.fullMoveNumber, Draw, DrawAgreement)

agreeToDraw(this) ==
  GameState(this.board, this.currentTurn, this.moveHistory, this.enPassantTarget,
            this.halfMoveClock, this.fullMoveNumber, Draw, DrawAgreement)

\* toFEN had the turn been written as the side that has just moved
toFENTurnOfMover(this, board) ==
  LET position == BoardToFEN(board)
      turn == IF this.currentTurn = White THEN <<"b">> ELSE <<"w">>
      enPassant == IF this.enPassantTarget # NoPosition
                   THEN toAlgebraic(this.enPassantTarget) ELSE <<"-">>
  IN position \o <<" ">> \o turn \o <<" ">> \o <<"-">> \o <<" ">> \o enPassant
       \o <<" ">> \o toString(this.halfMoveClock) \o <<" ">> \o toString(this.fullMoveNumber)

\* GameState.toFEN: placement, turn, '-' for the castling rights, the
\* en-passant target and the two clocks
toFEN(this, board) ==
  LET position == BoardToFEN(board)
      turn == IF this.currentTurn = White THEN <<"w">> ELSE <<"b">>
      castling == <<"-">>
      enPassant == IF this.enPassantTarget # NoPosition
                   THEN toAlgebraic(this.enPassantTarget) ELSE <<"-">>
  IN position \o <<" ">> \o turn \o <<" ">> \o castling \o <<" ">> \o enPassant
       \o <<" ">> \o toString(this.halfMoveClock) \o <<" ">> \o toString(this.fullMoveNumber)

\* what GameState.fromFEN gives: the error it threw, or the fields of the new state
Parsed(error, board, currentTurn, enPassantTarget, halfMoveClock, fullMoveNumber) ==
  [error |-> error, board |-> board, currentTurn |-> currentTurn, enPassantTarget |-> enPassantTarget,
   halfMoveClock |-> halfMoveClock, fullMoveNumber |-> fullMoveNumber]

\* x || fallback on numbers: the fallback for NaN and for 0
orElse(x, fallback) == IF x = NaN \/ x = 0 THEN fallback ELSE x

\* fromFEN had any string of six or more parts been read
fromFENSixOrMore(fen) ==
  LET parts == splitWhiteSpace(fen)
  IN IF Len(parts) < 6
     THEN Parsed("Invalid FEN: must have 6 parts", EmptyBoard, "none", NoPosition, 0, 0)
     ELSE LET read == BoardFromFEN(parts[1], <<"-">>)
          IN IF read.error # Undefined
             THEN Parsed(read.error, EmptyBoard, "none", NoPosition, 0, 0)
             ELSE Parsed(Undefined, read.board,
                         IF parts[2] = <<"w">> THEN White ELSE Black,
                         IF parts[4] # <<"-">> THEN fromAlgebraic(parts[4]) ELSE NoPosition,
                         orElse(parseInt(parts[5]), 0),
                         orElse(parseInt(parts[6]), 1))

\* GameState.fromFEN: the castling part is read and never used
fromFEN(fen) ==
  LET parts == splitWhiteSpace(fen)
  IN IF Len(parts) # 6
     THEN Parsed("Invalid FEN: must have 6 parts", EmptyBoard, "none", NoPosition, 0, 0)
     ELSE LET positionPart == parts[1]
              turnPart == parts[2]
              enPassantPart == parts[4]
              halfMovePart == parts[5]
              fullMovePart == parts[6]
              read == BoardFromFEN(positionPart, <<"-">>)
          IN IF read.error # Undefined
             THEN Parsed(read.error, EmptyBoard, "none", NoPosition, 0, 0)
             ELSE Parsed(Undefined, read.board,
                         IF turnPart = <<"w">> THEN White ELSE Black,
                         IF enPassantPart # <<"-">> THEN fromAlgebraic(enPassantPart) ELSE NoPosition,
                         orElse(parseInt(halfMovePart), 0),
                         orElse(parseInt(fullMovePart), 1))

\* clone had the receiver's Board been handed on, as resign hands it on
cloneGameStateSharingBoard(this, hp) ==
  [state |-> this, heap |-> hp]

\* GameState.clone on the heap hp: the new GameState and the heap after it
cloneGameState(this, hp) ==
  LET newBoard == AllocBoard({this.board})
  IN [state |-> GameState(newBoard, this.currentTurn, this.moveHistory, this.enPassantTarget,
                          this.halfMoveClock, this.fullMoveNumber, this.result, this.endReason),
      heap |-> [hp EXCEPT ![newBoard] = clone(hp[this.board])]]

\* ------------------------------------------------------------------ starting states

\* new Piece(type, color, {file, rank}, hasMoved)
P(type, color, file, rank, hasMoved) == Piece(type, color, Position(file, rank), hasMoved)

RECURSIVE PawnRow(_, _, _)
PawnRow(color, rank, file) ==
  IF file > 7 THEN <<>>
  ELSE <<P(Pawn, color, file, rank, FALSE)>> \o PawnRow(color, rank, file + 1)

backRow == <<Rook, Knight, Bishop, Queen, King, Bishop, Knight, Rook>>

\* Board.createStandard
createStandardBoard ==
  BoardOf(PawnRow(White, 1, 0) \o PawnRow(Black, 6, 0)
          \o [f \in 1..8 |-> P(backRow[f], White, f - 1, 0, FALSE)]
          \o [f \in 1..8 |-> P(backRow[f], Black, f - 1, 7, FALSE)])

\* a starting state: the arguments of new GameState(board, currentTurn, [],
\* enPassantTarget, halfMoveClock, fullMoveNumber), as createStandard,
\* createCustom and fromFEN build it
Start(board, currentTurn, enPassantTarget, halfMoveClock, fullMoveNumber) ==
  [board |-> board, currentTurn |-> currentTurn, enPassantTarget |-> enPassantTarget,
   halfMoveClock |-> halfMoveClock, fullMoveNumber |-> fullMoveNumber]

\* GameState.createStandard
StandardStart == Start(createStandardBoard, White, NoPosition, 0, 1)

\* createCustom: castling with a black pawn about to reach g2 or h2
CastlingStart ==
  Start(BoardOf(<<P(King, White, 4, 0, FALSE), P(Rook, White, 0, 0, FALSE),
                  P(Rook, White, 7, 0, FALSE), P(Pawn, White, 7, 1, FALSE),
                  P(King, Black, 4, 7, FALSE), P(Pawn, Black, 6, 2, TRUE)>>),
        Black, NoPosition, 0, 1)

\* createCustom: double steps beside an opponent pawn, on both sides
EnPassantStart ==
  Start(BoardOf(<<P(King, White, 7, 0, TRUE), P(Pawn, White, 4, 4, TRUE),
                  P(Pawn, White, 0, 1, FALSE),
                  P(King, Black, 7, 7, TRUE), P(Pawn, Black, 3, 6, FALSE),
                  P(Pawn, Black, 1, 3, TRUE)>>),
        Black, NoPosition, 0, 1)

\* createCustom: an en-passant capture that would uncover the king on its rank
EnPassantPinStart ==
  Start(BoardOf(<<P(King, White, 0, 4, TRUE), P(Pawn, White, 1, 4, TRUE),
                  P(King, Black, 7, 7, TRUE), P(Rook, Black, 7, 4, TRUE),
                  P(Pawn, Black, 2, 6, FALSE)>>),
        Black, NoPosition, 0, 1)

\* fromFEN "7k/8/8/3PP3/8/8/8/7K w - e6 0 1": the target lies behind an own pawn
OwnPawnTargetStart ==
  Start(BoardOf(<<P(King, White, 7, 0, TRUE), P(Pawn, White, 3, 4, TRUE),
                  P(Pawn, White, 4, 4, TRUE), P(King, Black, 7, 7, TRUE)>>),
        White, Position(4, 5), 0, 1)

\* createCustom: pawns of both colours one step from their back rank
PromotionStart ==
  Start(BoardOf(<<P(King, White, 4, 0, TRUE), P(Pawn, White, 0, 6, TRUE),
                  P(King, Black, 4, 7, TRUE), P(Knight, Black, 1, 7, TRUE),
                  P(Pawn, Black, 7, 1, TRUE)>>),
        White, NoPosition, 0, 1)

\* fromFEN "7k/8/4Q1K1/8/8/8/8/8 w - - 98 60": mate, stalemate, a bare-kings
\* capture and the fifty-move rule are all one or two moves away
EndingStart ==
  Start(BoardOf(<<P(King, White, 6, 5, TRUE), P(Queen, White, 4, 5, TRUE),
                  P(King, Black, 7, 7, TRUE)>>),
        White, NoPosition, 98, 60)

\* createCustom: White may castle on either side, a black bishop aims at h1
CastlingReturnStart ==
  Start(BoardOf(<<P(King, White, 4, 0, FALSE), P(Rook, White, 0, 0, FALSE),
                  P(Rook, White, 7, 0, FALSE), P(Pawn, White, 0, 1, FALSE),
                  P(Pawn, White, 7, 1, FALSE),
                  P(King, Black, 2, 7, TRUE), P(Bishop, Black, 1, 6, TRUE)>>),
        White, NoPosition, 0, 1)

\* fromFEN "7k/8/4Q1K1/8/8/8/8/8 w - - 99 60": the next move without a capture
\* brings the half-move clock to 100, whether or not it mates or stalemates
FiftyMoveStart ==
  Start(BoardOf(<<P(King, White, 6, 5, TRUE), P(Queen, White, 4, 5, TRUE),
                  P(King, Black, 7, 7, TRUE)>>),
        White, NoPosition, 99, 60)

CustomStarts ==
  {CastlingStart, EnPassantStart, EnPassantPinStart, OwnPawnTargetStart,
   PromotionStart, EndingStart, FiftyMoveStart}

\* ------------------------------------------------------------------ the state machine

VARIABLES
  boards,   \* the heap of Board objects: id -> contents
  game,     \* the GameState the caller holds
  prev,     \* the receiver of the last call (NoState before the first)
  res,      \* the MoveResult of the last makeMove (NoResult if none)
  call,     \* the arguments of the last makeMove (NoCall if none)
  text,     \* the string given to or returned by the last conversion
  out,      \* the outcome of the last conversion (NoOutcome if none)
  calls,    \* the makeMove calls in flight against one GameState
  events,   \* the events LocalGameManager.events has emitted, in order
  manager,  \* the LocalGameManager's fields and the place start() is at
  doc       \* the server's document of the game (NoDoc if none)

vars == <<boards, game, prev, res, call, text, out, calls, events, manager, doc>>

\* no LocalGameManager has been constructed
NoManager == [pc |-> "none", running |-> FALSE, paused |-> FALSE, timeControl |-> FALSE]

\* no game is stored on the server
NoDoc ==
  [boardState |-> <<>>, currentTurn |-> "none", moves |-> 0, result |-> "none",
   endReason |-> "undefined"]

\* neither a manager nor a server takes part
Local == events = <<>> /\ manager = NoManager /\ doc = NoDoc

\* what a conversion did: it returned a value or threw an error
Outcome(status, error, value) == [status |-> status, error |-> error, value |-> value]

NoOutcome == Outcome("none", Undefined, NoPosition)

\* the longest game played from a starting state
MaxPlies == 2

PromotionTypes == {Undefined} \cup PieceTypes

Call(from, to, promotionType) ==
  [from |-> from, to |-> to, promotionType |-> promotionType]

NoCall == Call(NoPosition, NoPosition, Undefined)

\* Board objects that no held GameState refers to are garbage
Collect(hp, live) == [id \in BoardIds |-> IF id \in live THEN hp[id] ELSE EmptyBoard]

InitFrom(starts) ==
  \E s \in starts :
    /\ boards = Collect([id \in BoardIds |-> s.board], {1})
    /\ game = GameState(1, s.currentTurn, <<>>, s.enPassantTarget, s.halfMoveClock,
                        s.fullMoveNumber, InProgress, Undefined)
    /\ prev = NoState
    /\ res = NoResult
    /\ call = NoCall
    /\ text = <<>>
    /\ out = NoOutcome
    /\ calls = <<>>
    /\ Local

Init == InitFrom(CustomStarts)

InitStandard == InitFrom({StandardStart})

\* the caller calls game.makeMove and, as LocalGameManager.playTurn does,
\* goes on with result.newState when the move was accepted
DoMakeMove(from, to, promotionType) ==
  \E r \in {makeMove(game, from, to, promotionType, boards)} :
  LET next == IF r.result.success THEN r.result.newState ELSE game
  IN /\ prev' = game
     /\ res' = r.result
     /\ game' = next
     /\ boards' = Collect(r.heap, {game.board, next.board})
     /\ call' = Call(from, to, promotionType)
     /\ UNCHANGED <<text, out, calls, events, manager, doc>>

\* the calls a player makes that picks among getLegalMoves(): the squares of a
\* legal move, with any promotion type (or none) when a pawn reaches a back rank
PlayerCalls ==
  LET types(m) == IF m.piece.type = Pawn /\ m.to.rank \in {0, 7}
                  THEN PromotionTypes ELSE {Undefined}
  IN UNION {{Call(m.from, m.to, t) : t \in types(m)} :
              m \in Range(getAllLegalMoves(boards[game.board], game.currentTurn,
                                           game.enPassantTarget))}

MakeMove ==
  /\ Len(game.moveHistory) < MaxPlies
  /\ \E c \in PlayerCalls : DoMakeMove(c.from, c.to, c.promotionType)

Resign ==
  /\ prev' = game
  /\ game' = resign(game)
  /\ res' = NoResult
  /\ boards' = Collect(boards, {game.board})
  /\ call' = NoCall
  /\ UNCHANGED <<text, out, calls, events, manager, doc>>

AgreeToDraw ==
  /\ prev' = game
  /\ game' = agreeToDraw(game)
  /\ res' = NoResult
  /\ boards' = Collect(boards, {game.board})
  /\ call' = NoCall
  /\ UNCHANGED <<text, out, calls, events, manager, doc>>

Next == MakeMove \/ Resign \/ AgreeToDraw

Spec == Init /\ [][Next]_vars

SpecStandard == InitStandard /\ [][Next]_vars

\* the longest game played from CastlingReturnStart
MaxCastlingPlies == 3

InitCastling == InitFrom({CastlingReturnStart})

\* LocalGameManager.playTurn, for a game long enough for a piece to return
PlayTurn ==
  /\ Len(game.moveHistory) < MaxCastlingPlies
  /\ \E c \in PlayerCalls : DoMakeMove(c.from, c.to, c.promotionType)

NextCastling == PlayTurn

SpecCastling == InitCastling /\ [][NextCastling]_vars

\* one makeMove with arbitrary arguments on a starting state
Probe ==
  /\ prev = NoState
  /\ \E from \in Positions, to \in Positions, promotionType \in PromotionTypes :
       DoMakeMove(from, to, promotionType)

NextProbe == Probe

SpecProbe == Init /\ [][NextProbe]_vars

\* boards built piece by piece, as new Board(pieces) builds them: the kings a
\* board begins with (both, adjacent ones, or one colour's only)
KingSetups ==
  {BoardOf(<<P(King, White, 4, 0, FALSE), P(King, Black, 4, 2, FALSE)>>),
   BoardOf(<<P(King, White, 4, 0, FALSE), P(King, Black, 3, 0, FALSE)>>),
   BoardOf(<<P(King, White, 4, 0, FALSE)>>),
   BoardOf(<<P(King, Black, 4, 2, FALSE)>>)}

\* the most pieces placed besides the kings
MaxExtraPieces == 2

\* the squares pieces are placed on: beside, between and in front of the kings
\* on e1 and e3, on their files, ranks and diagonals, and a knight's jump away
PlacementSquares ==
  {Position(3, 1), Position(4, 1), Position(5, 1), Position(5, 2),
   Position(7, 3), Position(4, 4), Position(2, 2), Position(6, 3)}

InitMaterial ==
  \E board \in KingSetups :
    InitFrom({Start(board, White, NoPosition, 0, 1)})

\* Board.setPiece of one more piece of the list given to the constructor
PlacePiece ==
  /\ Cardinality({p \in getAllPieces(boards[game.board]) : p.type # King}) < MaxExtraPieces
  /\ \E type \in PieceTypes \ {King}, color \in {White, Black}, pos \in PlacementSquares :
       /\ isEmpty(boards[game.board], pos)
       /\ boards' = [boards EXCEPT ![game.board] =
                       setPiece(boards[game.board], P(type, color, pos.file, pos.rank, FALSE))]
  /\ UNCHANGED <<game, prev, res, call, text, out, calls, events, manager, doc>>

NextMaterial == PlacePiece

SpecMaterial == InitMaterial /\ [][NextMaterial]_vars

\* the strings handed to fromAlgebraic: every string of at most
\* MaxNotationLen characters over the files, the ranks and some others
NotationChars ==
  {"a", "b", "c", "d", "e", "f", "g", "h", "1", "2", "3", "4", "5", "6", "7", "8",
   "i", "A", "0", "9", "x", "-"}

MaxNotationLen == 3

NotationInputs == UNION {[1..n -> NotationChars] : n \in 0..MaxNotationLen}

\* no game is held while strings are converted
NoGame ==
  /\ boards = [id \in BoardIds |-> EmptyBoard]
  /\ game = NoState
  /\ prev = NoState
  /\ res = NoResult
  /\ call = NoCall
  /\ calls = <<>>
  /\ Local

InitAlgebraic ==
  /\ NoGame
  /\ text \in NotationInputs
  /\ out = NoOutcome

\* PositionUtils.fromAlgebraic(text)
FromAlgebraic ==
  /\ out = NoOutcome
  /\ out' = IF fromAlgebraicThrows(text)
            THEN Outcome("thrown", "Invalid algebraic notation", NoPosition)
            ELSE Outcome("returned", Undefined, fromAlgebraic(text))
  /\ UNCHANGED <<boards, game, prev, res, call, text, calls, events, manager, doc>>

\* PositionUtils.toAlgebraic of a position that fromAlgebraic returned
ToAlgebraic ==
  /\ out.status = "returned" /\ isValid(out.value)
  /\ text' = toAlgebraic(out.value)
  /\ out' = NoOutcome
  /\ UNCHANGED <<boards, game, prev, res, call, calls, events, manager, doc>>

NextAlgebraic == FromAlgebraic \/ ToAlgebraic

SpecAlgebraic == InitAlgebraic /\ [][NextAlgebraic]_vars

\* the strings handed to GameState.fromFEN: the rows of a placement joined by
\* '/', and the fields of a FEN joined by single spaces
RECURSIVE join(_, _)
join(parts, sep) ==
  IF parts = <<>> THEN <<>>
  ELSE IF Len(parts) = 1 THEN parts[1]
  ELSE parts[1] \o sep \o join(Tail(parts), sep)

\* kings and rooks at home, with and without the pawns, and kings off e1 and e8
HomeRows ==
  {<<<<"r", "3", "k", "2", "r">>, <<"p", "p", "p", "p", "p", "p", "p", "p">>, <<"8">>, <<"8">>, <<"8">>, <<"8">>, <<"P", "P", "P", "P", "P", "P", "P", "P">>, <<"R", "3", "K", "2", "R">>>>,
   <<<<"r", "3", "k", "2", "r">>, <<"8">>, <<"8">>, <<"8">>, <<"8">>, <<"8">>, <<"8">>, <<"R", "3", "K", "2", "R">>>>,
   <<<<"r", "4", "k", "1", "r">>, <<"8">>, <<"8">>, <<"8">>, <<"8">>, <<"8">>, <<"8">>, <<"R", "4", "K", "1", "R">>>>}

BareRows == <<<<"r", "3", "k", "2", "r">>, <<"8">>, <<"8">>, <<"8">>, <<"8">>, <<"8">>, <<"8">>, <<"R", "3", "K", "2", "R">>>>

\* rows put in the place of one row: well formed, too short, too long, with
\* a digit or a letter that is no piece, empty
RowVariants ==
  {<<"8">>, <<"7">>, <<"9">>, <<"4", "x", "3">>, <<"4", "4", "P">>, <<>>, <<"3", "P", "4">>, <<"p", "6", "P">>, <<"K">>}

\* placements: the home rows, one row replaced, a row dropped or added
PlacementInputs ==
  {join(rows, <<"/">>) : rows \in HomeRows}
    \cup {join([BareRows EXCEPT ![i] = row], <<"/">>) : i \in 1..8, row \in RowVariants}
    \cup {join(SubSeq(BareRows, 1, 7), <<"/">>), join(Append(BareRows, <<"8">>), <<"/">>)}

CastlingFields == {<<"-">>, <<"K", "Q", "k", "q">>, <<"K">>, <<"Q">>, <<"k">>, <<"q">>, <<"K", "q">>}

\* the FEN strings: six fields, the same with more white space, five fields,
\* seven fields, and the empty string
FenInputs ==
  UNION {{join(<<p, t, c, <<"-">>, <<"0">>, <<"1">>>>, <<" ">>),
          <<" ">> \o join(<<p, t, c, <<"-">>, <<"0">>, <<"1">>>>, <<" ", " ">>) \o <<" ">>,
          join(<<p, t, c, <<"-">>, <<"0">>>>, <<" ">>),
          join(<<p, t, c, <<"-">>, <<"0">>, <<"1">>, <<"1">>>>, <<" ">>)} :
           p \in PlacementInputs, t \in {<<"w">>, <<"b">>}, c \in CastlingFields}
    \cup {<<>>}

InitFEN ==
  /\ NoGame
  /\ text \in FenInputs
  /\ out = NoOutcome

\* GameState.fromFEN(text): the caller holds the state it returns
FromFEN ==
  /\ out = NoOutcome
  /\ \E parsed \in {fromFEN(text)} :
       IF parsed.error # Undefined
       THEN /\ out' = Outcome("thrown", parsed.error, NoPosition)
            /\ UNCHANGED <<boards, game>>
       ELSE /\ out' = Outcome("returned", Undefined, NoPosition)
            /\ boards' = [boards EXCEPT ![1] = parsed.board]
            /\ game' = GameState(1, parsed.currentTurn, <<>>, parsed.enPassantTarget,
                                 parsed.halfMoveClock, parsed.fullMoveNumber,
                                 InProgress, Undefined)
  /\ UNCHANGED <<prev, res, call, text, calls, events, manager, doc>>

NextFEN == FromFEN

SpecFEN == InitFEN /\ [][NextFEN]_vars

\* a state is cloned after at most one move, resignation or draw agreement,
\* and pieces are then set, moved and removed on either board
InitClone == InitFrom({EnPassantStart, EndingStart})

\* the caller holds a clone (game) and its original (prev)
cloned ==
  /\ prev # NoState
  /\ game = [prev EXCEPT !.board = game.board]

FirstStep ==
  /\ prev = NoState
  /\ Next

\* copy = game.clone(): the caller keeps both
CloneState ==
  /\ ~cloned
  /\ \E r \in {cloneGameState(game, boards)} :
       /\ prev' = game
       /\ game' = r.state
       /\ boards' = Collect(r.heap, {game.board, r.state.board})
  /\ UNCHANGED <<res, call, text, out, calls, events, manager, doc>>

\* the squares on which the boards are changed, and the piece set on them
CloneSquares == {Position(7, 0), Position(4, 5)}

\* the boards the caller can reach: the clone's and the original's
HeldBoards == {game.board, prev.board}

\* board.setPiece(piece) on one of the two boards
SetPiece ==
  /\ cloned
  /\ \E id \in HeldBoards, pos \in CloneSquares :
       boards' = [boards EXCEPT ![id] = setPiece(boards[id], Piece(Queen, White, pos, FALSE))]
  /\ UNCHANGED <<game, prev, res, call, text, out, calls, events, manager, doc>>

\* board.removePiece(pos) on one of the two boards
RemovePiece ==
  /\ cloned
  /\ \E id \in HeldBoards, pos \in CloneSquares :
       boards' = [boards EXCEPT ![id] = removePiece(boards[id], pos)]
  /\ UNCHANGED <<game, prev, res, call, text, out, calls, events, manager, doc>>

\* board.movePiece(from, to) on one of the two boards
MovePiece ==
  /\ cloned
  /\ \E id \in HeldBoards, from \in CloneSquares, to \in CloneSquares :
       /\ from # to
       /\ ~movePieceThrows(boards[id], from)
       /\ boards' = [boards EXCEPT ![id] = movePiece(boards[id], from, to)]
  /\ UNCHANGED <<game, prev, res, call, text, out, calls, events, manager, doc>>

NextClone == FirstStep \/ CloneState \/ SetPiece \/ RemovePiece \/ MovePiece

SpecClone == InitClone /\ [][NextClone]_vars

\* two makeMove calls against one GameState, their steps interleaved: a call
\* in flight has its arguments, the step it is at, the move it found, its
\* clone of the board and its MoveResult
InFlight(args, pc, move, newBoard, result) ==
  [args |-> args, pc |-> pc, move |-> move, newBoard |-> newBoard, result |-> result]

\* the calls made on a starting state: every legal move, a pawn's move to the
\* last rank with no promotion type, a queen or a king, and a move from an
\* empty square
CallsOn(s) ==
  UNION {{Call(m.from, m.to, t) :
            t \in IF m.piece.type = Pawn /\ m.to.rank \in {0, 7}
                  THEN {Undefined, Queen, King} ELSE {Undefined}} :
           m \in Range(getAllLegalMoves(s.board, s.currentTurn, s.enPassantTarget))}
    \cup {Call(Position(0, 0), Position(0, 1), Undefined)}

\* the caller keeps a clone of the state (prev) taken before the two calls
InitConcurrent ==
  \E s \in {EndingStart, PromotionStart} :
    \E r \in {cloneGameState(GameState(1, s.currentTurn, <<>>, s.enPassantTarget, s.halfMoveClock,
                                       s.fullMoveNumber, InProgress, Undefined),
                             [id \in BoardIds |-> IF id = 1 THEN s.board ELSE EmptyBoard])} :
      /\ boards = r.heap
      /\ game = [r.state EXCEPT !.board = 1]
      /\ prev = r.state
      /\ res = NoResult
      /\ call = NoCall
      /\ text = <<>>
      /\ out = NoOutcome
      /\ Local
      /\ \E c1 \in CallsOn(s), c2 \in CallsOn(s) :
           calls = <<InFlight(c1, "search", NoMove, 0, NoResult),
                     InFlight(c2, "search", NoMove, 0, NoResult)>>

\* the Board objects in use
LiveBoards == {game.board, prev.board} \cup {calls[j].newBoard : j \in 1..Len(calls)}

\* makeMove up to the call of applyMove
SearchStep(i) ==
  /\ calls[i].pc = "search"
  /\ \E s \in {Searched(game, calls[i].args.from, calls[i].args.to,
                        calls[i].args.promotionType, boards)} :
       calls' = [calls EXCEPT ![i] =
                   IF s.result # NoResult
                   THEN InFlight(calls[i].args, "done", NoMove, 0, s.result)
                   ELSE InFlight(calls[i].args, "clone", s.move, 0, NoResult)]
  /\ UNCHANGED <<boards, game, prev, res, call, text, out, events, manager, doc>>

\* applyMove: const newBoard = this.board.clone()
CloneStep(i) ==
  /\ calls[i].pc = "clone"
  /\ \E newBoard \in {cloneTarget(game, LiveBoards)} :
       /\ boards' = [boards EXCEPT ![newBoard] = clone(boards[game.board])]
       /\ calls' = [calls EXCEPT ![i].pc = "mutate", ![i].newBoard = newBoard]
  /\ UNCHANGED <<game, prev, res, call, text, out, events, manager, doc>>

\* applyMove: the pieces of the move are taken from and put on newBoard
MutateStep(i) ==
  /\ calls[i].pc = "mutate"
  /\ IF applyMoveThrows(calls[i].move)
     THEN /\ calls' = [calls EXCEPT ![i].pc = "done",
                                    ![i].result = Thrown("Cannot promote to pawn or king")]
          /\ UNCHANGED boards
     ELSE /\ boards' = [boards EXCEPT ![calls[i].newBoard] =
                          applyToBoard(boards[calls[i].newBoard], calls[i].move)]
          /\ calls' = [calls EXCEPT ![i].pc = "detect"]
  /\ UNCHANGED <<game, prev, res, call, text, out, events, manager, doc>>

\* applyMove: checkGameEnd and the new GameState; makeMove: the MoveResult
DetectStep(i) ==
  /\ calls[i].pc = "detect"
  /\ \E state \in {Detected(game, calls[i].move, calls[i].newBoard, boards)} :
       calls' = [calls EXCEPT ![i].pc = "done",
                              ![i].result = Accepted(calls[i].move,
                                                     [state |-> state, heap |-> boards]).result]
  /\ UNCHANGED <<boards, game, prev, res, call, text, out, events, manager, doc>>

NextConcurrent ==
  \E i \in 1..2 : SearchStep(i) \/ CloneStep(i) \/ MutateStep(i) \/ DetectStep(i)

SpecConcurrent == InitConcurrent /\ [][NextConcurrent]_vars

\* testGameFlow: the Scholar's Mate sequence, squares in algebraic notation
moves ==
  <<[from |-> <<"e", "2">>, to |-> <<"e", "4">>],
    [from |-> <<"e", "7">>, to |-> <<"e", "5">>],
    [from |-> <<"d", "1">>, to |-> <<"h", "5">>],
    [from |-> <<"b", "8">>, to |-> <<"c", "6">>],
    [from |-> <<"f", "1">>, to |-> <<"c", "4">>],
    [from |-> <<"g", "8">>, to |-> <<"f", "6">>],
    [from |-> <<"h", "5">>, to |-> <<"f", "7">>]>>

\* gameState.makeMove(from, to) for the i-th move of the sequence
SequenceCall(i) == Call(fromAlgebraic(moves[i].from), fromAlgebraic(moves[i].to), Undefined)

\* a caller makes the calls of the sequence, in the order written or in any
\* other, going on with the state returned when a call is accepted
PlaySequence == \E i \in 1..Len(moves) : \E c \in {SequenceCall(i)} : DoMakeMove(c.from, c.to, c.promotionType)

NextSequence == PlaySequence

SpecSequence == InitStandard /\ [][NextSequence]_vars

\* boards handed to PawnRules.getPossibleMoves: a pawn of either colour on any
\* square, and at most MaxBesidePawn more pawns around a pawn of the board
MaxBesidePawn == 2

InitPawn ==
  \E color \in {White, Black}, pos \in Positions :
    InitFrom({Start(BoardOf(<<P(Pawn, color, pos.file, pos.rank, FALSE)>>), White, NoPosition, 0, 1)})

\* the squares around a pawn: its file and the two beside it, two ranks each way
besidePawn(board, pos) ==
  \E p \in getAllPieces(board) :
    /\ pos.file - p.position.file \in -1..1
    /\ pos.rank - p.position.rank \in -2..2

\* Board.setPiece of one more pawn
PlacePawn ==
  /\ out.status = "none"
  /\ Cardinality(getAllPieces(boards[game.board])) <= MaxBesidePawn
  /\ \E color \in {White, Black}, pos \in Positions :
       /\ isEmpty(boards[game.board], pos)
       /\ besidePawn(boards[game.board], pos)
       /\ boards' = [boards EXCEPT ![game.board] =
                       setPiece(boards[game.board], P(Pawn, color, pos.file, pos.rank, FALSE))]
  /\ UNCHANGED <<game, prev, res, call, text, out, calls, events, manager, doc>>

\* new PawnRules().getPossibleMoves(piece, board) for a pawn of the board
PawnMoves ==
  /\ out.status = "none"
  /\ \E piece \in getAllPieces(boards[game.board]) :
       /\ call' = Call(piece.position, NoPosition, Undefined)
       /\ out' = Outcome("returned", Undefined, PawnRules(piece, boards[game.board]))
  /\ UNCHANGED <<boards, game, prev, res, text, calls, events, manager, doc>>

NextPawn == PlacePawn \/ PawnMoves

SpecPawn == InitPawn /\ [][NextPawn]_vars

\* boards handed to the rules of the other pieces: a knight, bishop, rook,
\* queen or king of either colour on any square, and at most MaxBesidePiece
\* unmoved rooks of either colour anywhere else
MaxBesidePiece == 1

InitPiece ==
  \E type \in PieceTypes \ {Pawn}, color \in {White, Black}, pos \in Positions :
    InitFrom({Start(BoardOf(<<P(type, color, pos.file, pos.rank, FALSE)>>), White, NoPosition, 0, 1)})

\* Board.setPiece of one more piece
PlaceRook ==
  /\ out.status = "none"
  /\ Cardinality(getAllPieces(boards[game.board])) <= MaxBesidePiece
  /\ \E color \in {White, Black}, pos \in Positions :
       /\ isEmpty(boards[game.board], pos)
       /\ boards' = [boards EXCEPT ![game.board] =
                       setPiece(boards[game.board], P(Rook, color, pos.file, pos.rank, FALSE))]
  /\ UNCHANGED <<game, prev, res, call, text, out, calls, events, manager, doc>>

\* PieceRulesFactory.getPossibleMoves(piece, board) for a piece of the board
PieceMoves ==
  /\ out.status = "none"
  /\ \E piece \in getAllPieces(boards[game.board]) :
       /\ call' = Call(piece.position, NoPosition, Undefined)
       /\ out' = Outcome("returned", Undefined, getPossibleMoves(piece, boards[game.board]))
  /\ UNCHANGED <<boards, game, prev, res, text, calls, events, manager, doc>>

NextPiece == PlaceRook \/ PieceMoves

SpecPiece == InitPiece /\ [][NextPiece]_vars

\* boards handed to getCastlingMoves: an unmoved king of either colour on any
\* square, and at most MaxBesideKing rooks of either colour, moved or not, on
\* the king's rank (the only squares getCastlingMoves reads pieces from; a
\* piece of another rank can only attack, which removes castling moves)
MaxBesideKing == 2

InitKing ==
  \E color \in {White, Black}, pos \in Positions :
    InitFrom({Start(BoardOf(<<P(King, color, pos.file, pos.rank, FALSE)>>), White, NoPosition, 0, 1)})

\* Board.setPiece of one more rook on the rank of the pieces
PlaceRankRook ==
  /\ out.status = "none"
  /\ Cardinality(getAllPieces(boards[game.board])) <= MaxBesideKing
  /\ \E color \in {White, Black}, pos \in Positions, hasMoved \in BOOLEAN :
       /\ isEmpty(boards[game.board], pos)
       /\ \A p \in getAllPieces(boards[game.board]) : p.position.rank = pos.rank
       /\ boards' = [boards EXCEPT ![game.board] =
                       setPiece(boards[game.board], P(Rook, color, pos.file, pos.rank, hasMoved))]
  /\ UNCHANGED <<game, prev, res, call, text, out, calls, events, manager, doc>>

\* GameRules.getCastlingMoves(piece, board) for a piece of the board
CastlingMoves ==
  /\ out.status = "none"
  /\ \E piece \in getAllPieces(boards[game.board]) :
       /\ call' = Call(piece.position, NoPosition, Undefined)
       /\ out' = Outcome("returned", Undefined, getCastlingMoves(piece, boards[game.board]))
  /\ UNCHANGED <<boards, game, prev, res, text, calls, events, manager, doc>>

NextKing == PlaceRankRook \/ CastlingMoves

SpecKing == InitKing /\ [][NextKing]_vars

\* RandomCpuPlayer.requestMove: the PlayerMoves it may return, one for each
\* legal move (Math.random picks any), with the promotionType the Move carries;
\* none when it throws 'No legal moves available'
requestMove(gameState, hp) ==
  {Call(randomMove.from, randomMove.to, randomMove.promotionType) :
     randomMove \in Range(getAllLegalMoves(hp[gameState.board], gameState.currentTurn,
                                            gameState.enPassantTarget))}

\* LocalGameManager.playTurn with RandomCpuPlayers on both sides, while the
\* game loop of start goes on
CpuTurn ==
  /\ game.result = InProgress
  /\ Len(game.moveHistory) < MaxPlies
  /\ \E playerMove \in requestMove(game, boards) :
       DoMakeMove(playerMove.from, playerMove.to, playerMove.promotionType)

NextCpu == CpuTurn

SpecCpu == Init /\ [][NextCpu]_vars

\* a game from createStandard in which a black pawn reaches h2 while the white
\* king and king's rook have not moved and f1 and g1 are empty: 1. g3 h5
\* 2. Bg2 h4 3. Nf3 hxg3 4. a3 gxh2 5. O-O hxg1
pawnToH2 ==
  <<[from |-> <<"g", "2">>, to |-> <<"g", "3">>],
    [from |-> <<"h", "7">>, to |-> <<"h", "5">>],
    [from |-> <<"f", "1">>, to |-> <<"g", "2">>],
    [from |-> <<"h", "5">>, to |-> <<"h", "4">>],
    [from |-> <<"g", "1">>, to |-> <<"f", "3">>],
    [from |-> <<"h", "4">>, to |-> <<"g", "3">>],
    [from |-> <<"a", "2">>, to |-> <<"a", "3">>],
    [from |-> <<"g", "3">>, to |-> <<"h", "2">>],
    [from |-> <<"e", "1">>, to |-> <<"g", "1">>],
    [from |-> <<"h", "2">>, to |-> <<"g", "1">>]>>

\* the players make the moves of that game, in its order or in any other that
\* makeMove accepts; a move to the first rank comes with no promotion type, a
\* queen or a pawn
PlayPawnToH2 ==
  \E i \in 1..Len(pawnToH2) :
    \E promotionType \in (IF fromAlgebraic(pawnToH2[i].to).rank = 0 THEN {Undefined, Queen, Pawn} ELSE {Undefined}) :
      DoMakeMove(fromAlgebraic(pawnToH2[i].from), fromAlgebraic(pawnToH2[i].to), promotionType)

NextPawnToH2 == PlayPawnToH2

SpecPawnToH2 == InitStandard /\ [][NextPawnToH2]_vars

\* ------------------------------------------------------------------ LocalGameManager

\* a GameEvent: its type and, for turn_change and check, its colour
Event(type, color) == [type |-> type, color |-> color]

\* playTurn had the check event been emitted after every move
emittedCheckAlways(result) ==
  <<Event("move_made", "none"), Event("turn_change", result.newState.currentTurn),
    Event("check", result.newState.currentTurn)>>

\* playTurn from "Emit move event": the events of an accepted move
emitted(result) ==
  <<Event("move_made", "none"), Event("turn_change", result.newState.currentTurn)>>
    \o (IF result.isCheck THEN <<Event("check", result.newState.currentTurn)>> ELSE <<>>)

\* new LocalGameManager(config): config.initialState is a custom start, with or
\* without a time control; listeners and player callbacks do not throw
InitManager ==
  \E s \in CustomStarts, timeControl \in BOOLEAN :
    /\ boards = Collect([id \in BoardIds |-> s.board], {1})
    /\ game = GameState(1, s.currentTurn, <<>>, s.enPassantTarget, s.halfMoveClock,
                        s.fullMoveNumber, InProgress, Undefined)
    /\ prev = NoState
    /\ res = NoResult
    /\ call = NoCall
    /\ text = <<>>
    /\ out = NoOutcome
    /\ calls = <<>>
    /\ events = <<>>
    /\ manager = [pc |-> "constructed", running |-> FALSE, paused |-> FALSE,
                  timeControl |-> timeControl]
    /\ doc = NoDoc

\* start() up to the game loop
StartGame ==
  /\ manager.pc = "constructed"
  /\ manager' = [manager EXCEPT !.pc = "loop", !.running = TRUE]
  /\ events' = <<Event("game_start", "none")>>
  /\ UNCHANGED <<boards, game, prev, res, call, text, out, calls, doc>>

\* start() after the game loop: game_end if the state has an endReason
Finish ==
  /\ manager.pc = "loop"
  /\ ~(manager.running /\ game.result = InProgress)
  /\ manager' = [manager EXCEPT !.pc = "returned"]
  /\ events' = events \o (IF game.endReason # Undefined
                          THEN <<Event("game_end", "none")>> ELSE <<>>)
  /\ UNCHANGED <<boards, game, prev, res, call, text, out, calls, doc>>

\* playTurn up to requestMove: the player to move has run out of time and
\* resigns, or is asked for a move
BeginTurn ==
  /\ manager.pc = "loop"
  /\ manager.running /\ game.result = InProgress
  /\ ~manager.paused
  /\ Len(game.moveHistory) < MaxPlies
  /\ \/ /\ manager.timeControl
        /\ game' = resign(game)
        /\ UNCHANGED manager
     \/ /\ manager' = [manager EXCEPT !.pc = "asked"]
        /\ UNCHANGED game
  /\ UNCHANGED <<boards, prev, res, call, text, out, calls, events, doc>>

\* playTurn from the player's answer on: the move is made, and if it is
\* accepted the manager goes on with the new state and emits its events
Answer ==
  /\ manager.pc = "asked"
  /\ \E c \in PlayerCalls \cup {Call(Position(0, 0), Position(0, 1), Undefined)} :
     \E r \in {makeMove(game, c.from, c.to, c.promotionType, boards)} :
       /\ prev' = game
       /\ res' = r.result
       /\ call' = c
       /\ IF r.result.success
          THEN /\ game' = r.result.newState
               /\ boards' = Collect(r.heap, {game.board, r.result.newState.board})
               /\ events' = events \o emitted(r.result)
          ELSE /\ UNCHANGED <<game, events>>
               /\ boards' = Collect(r.heap, {game.board})
  /\ manager' = [manager EXCEPT !.pc = "loop"]
  /\ UNCHANGED <<text, out, calls, doc>>

\* requestMove rejects (RandomCpuPlayer: 'No legal moves available'); playTurn
\* catches the error
AnswerThrows ==
  /\ manager.pc = "asked"
  /\ manager' = [manager EXCEPT !.pc = "loop"]
  /\ UNCHANGED <<boards, game, prev, res, call, text, out, calls, events, doc>>

\* stop(), pause() and resume(), called while start() is running
Stop ==
  /\ manager.pc \in {"loop", "asked"}
  /\ manager.running
  /\ manager' = [manager EXCEPT !.running = FALSE]
  /\ UNCHANGED <<boards, game, prev, res, call, text, out, calls, events, doc>>

PauseResume ==
  /\ manager.pc \in {"loop", "asked"}
  /\ manager' = [manager EXCEPT !.paused = ~manager.paused]
  /\ UNCHANGED <<boards, game, prev, res, call, text, out, calls, events, doc>>

NextManager == StartGame \/ Finish \/ BeginTurn \/ Answer \/ AnswerThrows \/ Stop \/ PauseResume

SpecManager == InitManager /\ [][NextManager]_vars

\* ------------------------------------------------------------------ the server

\* ValidatedMoveResult, with the result of the domain's makeMove beside it
\* (made), which validateAndExecuteMove itself does not return
Validated(success, newFEN, error, check, mate, stale, made) ==
  [success |-> success, newFEN |-> newFEN, error |-> error, isCheck |-> check,
   isCheckmate |-> mate, isStalemate |-> stale, made |-> made]

NotMade == [result |-> NoResult, heap |-> [id \in BoardIds |-> EmptyBoard]]

Refused(error) == Validated(FALSE, <<>>, error, FALSE, FALSE, FALSE, NotMade)

\* validateAndExecuteMove from "if (!result.success || !result.newState)": made
\* is what gameState.makeMove gave; an error it threw is caught
Executed(made) ==
  IF made.result.thrown THEN Refused("Server error during move validation")
  ELSE IF ~made.result.success
  THEN Refused(IF made.result.error # Undefined THEN made.result.error ELSE "Illegal move")
  ELSE Validated(TRUE, toFEN(made.result.newState, made.heap[made.result.newState.board]),
                 Undefined, made.result.isCheck, made.result.isCheckmate,
                 made.result.isStalemate, made)

\* validateAndExecuteMove after GameState.fromFEN(currentFEN), whose error is
\* caught; the state read has result InProgress, so step 3 never refuses
ValidateParsed(gameState, playerColor, from, to, promotionType) ==
  IF gameState.error # Undefined THEN Refused("Server error during move validation")
  ELSE IF gameState.currentTurn # (IF playerColor = "white" THEN White ELSE Black)
  THEN Refused("Not your turn")
  ELSE IF promotionType # Undefined /\ promotionType \notin {Queen, Rook, Bishop, Knight}
  THEN Refused("Invalid promotion type")
  ELSE Executed(makeMove(GameState(1, gameState.currentTurn, <<>>, gameState.enPassantTarget,
                                   gameState.halfMoveClock, gameState.fullMoveNumber,
                                   InProgress, Undefined),
                         from, to, promotionType,
                         [id \in BoardIds |-> IF id = 1 THEN gameState.board ELSE EmptyBoard]))

validateAndExecuteMove(currentFEN, playerColor, from, to, promotionType) ==
  ValidateParsed(fromFEN(currentFEN), playerColor, from, to, promotionType)

\* getGameResult: the result and endReason of GameState.fromFEN(currentFEN),
\* which the constructor leaves at InProgress and undefined; the same when
\* fromFEN throws
getGameResult(currentFEN) ==
  IF fromFEN(currentFEN).error # Undefined
  THEN [result |-> "in_progress", endReason |-> Undefined]
  ELSE [result |-> InProgress, endReason |-> Undefined]

\* the game document: createGame stores player1 as White; the FEN and the
\* number of moves stand for boardState and moveHistory
Doc(boardState, currentTurn, moveCount, result, endReason) ==
  [boardState |-> boardState, currentTurn |-> currentTurn, moves |-> moveCount,
   result |-> result, endReason |-> endReason]

whitePlayerId == "player1"

blackPlayerId == "player2"

\* the makeMove mutation from "7. Update game state in database": the fields
\* patched after validationResult.success
patched(stored, playerColor, validationResult) ==
  LET nextTurn == IF playerColor = "white" THEN "black" ELSE "white"
      ended ==
        IF validationResult.isCheckmate
        THEN [result |-> IF playerColor = "white" THEN "white_win" ELSE "black_win",
              endReason |-> "checkmate"]
        ELSE IF validationResult.isStalemate
        THEN [result |-> "draw", endReason |-> "stalemate"]
        ELSE LET result == getGameResult(validationResult.newFEN)
             IN IF result.result # "in_progress" THEN result
                ELSE [result |-> stored.result, endReason |-> stored.endReason]
  IN Doc(validationResult.newFEN, nextTurn, stored.moves + 1, ended.result, ended.endReason)

\* the error the makeMove mutation throws before the move is validated
\* (Undefined if none); playerId is the identity of the caller, for which the
\* handler has the placeholder "player1"
mutationError(stored, playerId) ==
  IF playerId # whitePlayerId /\ playerId # blackPlayerId
  THEN "You are not a player in this game"
  ELSE IF stored.result # "in_progress" THEN "Game is already finished"
  ELSE IF stored.currentTurn # (IF playerId = whitePlayerId THEN "white" ELSE "black")
  THEN "Not your turn"
  ELSE Undefined

\* the documents the server holds: games at the positions of the custom starts
InitServer ==
  \E s \in CustomStarts :
    /\ doc = Doc(toFEN(GameState(1, s.currentTurn, <<>>, s.enPassantTarget, s.halfMoveClock,
                                 s.fullMoveNumber, InProgress, Undefined), s.board),
                 IF s.currentTurn = White THEN "white" ELSE "black", 0, "in_progress", Undefined)
    /\ boards = [id \in BoardIds |-> EmptyBoard]
    /\ game = NoState
    /\ prev = NoState
    /\ res = NoResult
    /\ call = NoCall
    /\ text = <<>>
    /\ out = NoOutcome
    /\ calls = <<>>
    /\ events = <<>>
    /\ manager = NoManager

\* the arguments clients send: the squares of the moves legal in the stored
\* position, with a promotion type or none for a pawn reaching a back rank,
\* and a move from an empty corner
ServerCallsOn(gameState) ==
  UNION {{Call(m.from, m.to, t) :
            t \in IF m.piece.type = Pawn /\ m.to.rank \in {0, 7}
                  THEN {Undefined, Queen, Knight, King} ELSE {Undefined}} :
           m \in Range(getAllLegalMoves(gameState.board, gameState.currentTurn,
                                        gameState.enPassantTarget))}
    \cup {Call(Position(0, 0), Position(0, 1), Undefined)}

ServerCalls == ServerCallsOn(fromFEN(doc.boardState))

\* the makeMove mutation called by playerId; game and res keep what the
\* domain's makeMove produced for an accepted move
ServerMakeMove ==
  /\ doc.moves < MaxPlies
  /\ \E playerId \in {"player1", "player2", "player3"}, c \in ServerCalls :
       /\ call' = c
       /\ IF mutationError(doc, playerId) # Undefined
          THEN /\ out' = Outcome("thrown", mutationError(doc, playerId), NoPosition)
               /\ UNCHANGED <<doc, boards, game, res>>
          ELSE \E validationResult \in
                   {validateAndExecuteMove(doc.boardState,
                                           IF playerId = whitePlayerId THEN "white" ELSE "black",
                                           c.from, c.to, c.promotionType)} :
                 IF ~validationResult.success
                 THEN /\ out' = Outcome("thrown", validationResult.error, NoPosition)
                      /\ UNCHANGED <<doc, boards, game, res>>
                 ELSE /\ out' = Outcome("returned", Undefined, NoPosition)
                      /\ doc' = patched(doc, IF playerId = whitePlayerId THEN "white" ELSE "black",
                                        validationResult)
                      /\ res' = validationResult.made.result
                      /\ game' = validationResult.made.result.newState
                      /\ boards' = Collect(validationResult.made.heap,
                                           {validationResult.made.result.newState.board})
  /\ UNCHANGED <<prev, text, calls, events, manager>>

NextServer == ServerMakeMove

SpecServer == InitServer /\ [][NextServer]_vars

\* ------------------------------------------------------------------ properties

\* the board and the side to move of the state the caller holds
held == boards[game.board]

\* a piece could capture on a square: a pawn on its two forward diagonals
\* (never on the square in front), any other piece where its movement reaches
canCapture(board, attacker, position) ==
  IF attacker.type = Pawn
  THEN /\ position.rank = attacker.position.rank + (IF attacker.color = White THEN 1 ELSE -1)
       /\ abs(position.file - attacker.position.file) = 1
  ELSE position \in Range(getPossibleMoves(attacker, board))

\* a square is attacked when an opponent piece could capture on it
attacked(board, position, defenderColor) ==
  \E attacker \in getPiecesByColor(board, opposite(defenderColor)) :
    canCapture(board, attacker, position)

\* C1: in every position with one king per colour, no move that
\* getAllLegalMoves returns for the side to move (castling included) gives a
\* board on which the mover's own king is attacked by an opponent piece.
C1_LegalMovesKeepKingSafe ==
  \A move \in Range(getAllLegalMoves(held, game.currentTurn, game.enPassantTarget)) :
    \E after \in {applyToBoard(held, move)} :
      ~attacked(after, getKing(after, game.currentTurn).position, game.currentTurn)

\* the files the king stands on, passes through and lands on when castling
kingPath(king, move) ==
  IF move.to.file >= king.position.file
  THEN king.position.file .. move.to.file
  ELSE move.to.file .. king.position.file

\* C2: getCastlingMoves returns a castling move only if the king has not moved,
\* the rook on file 7 (kingside) or file 0 (queenside) of the king's rank is
\* present and has not moved, every square strictly between king and rook is
\* empty, and none of the squares the king stands on, passes through and lands
\* on is attacked by an opponent piece (pawns attack their forward diagonals).
C2_CastlingOnlyWhenPathSafe ==
  \A king \in getAllPieces(held) :
    \A move \in Range(getCastlingMoves(king, held)) :
      LET rank == king.position.rank
          rookFile == IF move.specialMove = CastleKingside THEN 7 ELSE 0
          rook == getPiece(held, Position(rookFile, rank))
          between == IF rookFile > king.position.file
                     THEN (king.position.file + 1) .. (rookFile - 1)
                     ELSE (rookFile + 1) .. (king.position.file - 1)
      IN /\ ~king.hasMoved
         /\ rook.type = Rook /\ ~rook.hasMoved
         /\ \A file \in between : isEmpty(held, Position(file, rank))
         /\ \A file \in kingPath(king, move) :
              ~attacked(held, Position(file, rank), king.color)

\* C3: a makeMove call on a state whose result is not InProgress is rejected:
\* success is false and there is no successor state.
C3_TerminalStateRejectsMoves ==
  (res # NoResult /\ prev.result # InProgress) =>
    (~res.success /\ res.newState = NoState)

\* the error the precedence of rejections gives for makeMove(from, to, promotionType)
\* on a state, or Undefined when none of the four rejections applies
expectedError(state, board, request) ==
  LET piece == getPiece(board, request.from)
      backRank == piece.type = Pawn /\
                    request.to.rank = (IF piece.color = White THEN 7 ELSE 0)
  IN IF piece = NoPiece THEN "No piece at source position"
     ELSE IF piece.color # state.currentTurn THEN "Not your turn"
     ELSE IF \A m \in Range(getLegalMoves(piece, board, state.enPassantTarget)) :
               m.to # request.to
     THEN "Illegal move"
     ELSE IF backRank /\ request.promotionType = Undefined THEN "Promotion type required"
     ELSE Undefined

\* C4: makeMove rejects a request by returning success=false with an error and
\* no newState, never by throwing, and the error is the first that applies of
\* 'No piece at source position', 'Not your turn', 'Illegal move' and
\* 'Promotion type required'; a request none of them applies to is not rejected.
C4_RejectionPrecedence ==
  call # NoCall =>
    \E expected \in {expectedError(prev, boards[prev.board], call)} :
      /\ ~res.thrown
      /\ res.success <=> expected = Undefined
      /\ ~res.success => (res.error = expected /\ res.newState = NoState)

\* the board of the receiver of the last call
received == boards[prev.board]

\* C5: makeMove leaves its receiver as it was: whether the call is accepted or
\* rejected, the receiver's board (every piece and hasMoved flag) and its side
\* to move, move history, en-passant target, clocks, result and endReason are
\* after the call what they were before it.
C5_MakeMoveKeepsReceiver ==
  [][call' # NoCall => (prev' = game /\ boards'[prev'.board] = boards[game.board])]_vars

\* an accepted move was made and the receiver's board differs from the new one
C5_Witness ==
  /\ call # NoCall /\ res.success
  /\ prev.board # game.board
  /\ received # held

\* C6: an accepted makeMove yields the state with the opposite side to move and
\* with the played move appended to the receiver's history; from createStandard
\* the side to move is White iff the history has even length.
C6_TurnFlipsHistoryGrows ==
  /\ (call # NoCall /\ res.success) =>
       /\ game = res.newState
       /\ game.currentTurn = opposite(prev.currentTurn)
       /\ game.moveHistory = Append(prev.moveHistory, res.move)
       /\ res.move.from = call.from /\ res.move.to = call.to
  /\ (game.currentTurn = White) <=> (Len(game.moveHistory) % 2 = 0)

\* two moves were accepted from the standard position and White is to move again
C6_Witness ==
  /\ call # NoCall /\ res.success
  /\ Len(game.moveHistory) = 2 /\ game.currentTurn = White
  /\ Len(prev.moveHistory) = 1 /\ prev.currentTurn = Black

\* the move that led to the held state (when its history is not empty)
lastMove == game.moveHistory[Len(game.moveHistory)]

\* a pawn advanced exactly two ranks
doubleStep(move) == move.piece.type = Pawn /\ abs(move.to.rank - move.from.rank) = 2

\* the square a double-stepping pawn skipped
skipped(move) == Position(move.from.file, (move.from.rank + move.to.rank) \div 2)

\* C7: after an accepted move the en-passant target is the square the pawn
\* skipped iff the move was a pawn advancing two ranks, and absent otherwise;
\* so an en-passant capture is offered only in reply to a double step, onto the
\* skipped square, and takes the pawn that has just made the double step.
C7_EnPassantTargetOnlyAfterDoubleStep ==
  Len(game.moveHistory) > 0 =>
    /\ game.enPassantTarget = IF doubleStep(lastMove) THEN skipped(lastMove) ELSE NoPosition
    /\ \A move \in Range(getAllLegalMoves(held, game.currentTurn, game.enPassantTarget)) :
         isEnPassant(move) =>
           /\ doubleStep(lastMove)
           /\ move.to = skipped(lastMove)
           /\ move.capturedPiece = moveTo(lastMove.piece, lastMove.to)

\* a double step was answered by another move: the capture is no longer offered
C7_Witness ==
  /\ Len(game.moveHistory) = 2
  /\ doubleStep(game.moveHistory[1])
  /\ ~doubleStep(lastMove)
  /\ prev.enPassantTarget = skipped(game.moveHistory[1])
  /\ \E move \in Range(getAllLegalMoves(received, prev.currentTurn, prev.enPassantTarget)) :
       isEnPassant(move)
  /\ game.enPassantTarget = NoPosition

\* the squares on which two boards differ
changed(before, after) ==
  {pos \in Positions : getPiece(before, pos) # getPiece(after, pos)}

\* C8: an accepted en-passant capture moves the capturing pawn from its source
\* to the en-passant target and removes the opponent pawn on (target file,
\* source rank); the target held no piece before and no other square changes.
C8_EnPassantBoardEffect ==
  (call # NoCall /\ res.success /\ isEnPassant(res.move)) =>
    \E victim \in {Position(call.to.file, call.from.rank)} :
      /\ call.to = prev.enPassantTarget
      /\ getPiece(received, call.from).type = Pawn
      /\ isEmpty(received, call.to)
      /\ getPiece(received, victim).type = Pawn
      /\ getPiece(received, victim).color = opposite(prev.currentTurn)
      /\ getPiece(held, call.to) = moveTo(getPiece(received, call.from), call.to)
      /\ isEmpty(held, call.from)
      /\ isEmpty(held, victim)
      /\ changed(received, held) = {call.from, call.to, victim}

\* C9: getEnPassantMove returns a move for a pawn and a target only if the
\* target is one of the pawn's two forward-diagonal squares, the square on the
\* target's file at the pawn's rank holds a pawn of the opposite colour, and
\* the capture does not leave the mover's king in check.
C9_EnPassantMoveOnlyOnOpponentPawn ==
  \A pawn \in {p \in getAllPieces(held) : p.type = Pawn} :
    \A target \in Positions :
      \E move \in {getEnPassantMove(pawn, held, target)} :
        move # NoMove =>
          \E victim \in {getPiece(held, Position(target.file, pawn.position.rank))} :
            /\ target.rank = pawn.position.rank + (IF pawn.color = White THEN 1 ELSE -1)
            /\ abs(target.file - pawn.position.file) = 1
            /\ victim.type = Pawn
            /\ victim.color = opposite(pawn.color)
            /\ ~isInCheck(applyEnPassant(held, move), pawn.color)

\* the types a pawn may promote to
PromotionChoices == {Queen, Rook, Bishop, Knight}

\* C10: a legal pawn move onto the back rank with promotion type T among queen,
\* rook, bishop and knight succeeds; the new board holds a T of the mover's
\* colour with hasMoved on the destination, nothing on the source and not the
\* captured piece, and the returned move is a PawnPromotion with promotionType T.
C10_PromotionResult ==
  \E piece \in {IF call = NoCall THEN NoPiece ELSE getPiece(received, call.from)} :
    ( /\ piece.type = Pawn
      /\ piece.color = prev.currentTurn
      /\ call.to.rank = (IF piece.color = White THEN 7 ELSE 0)
      /\ \E m \in Range(getLegalMoves(piece, received, prev.enPassantTarget)) : m.to = call.to
      /\ call.promotionType \in PromotionChoices )
    => /\ res.success
       /\ getPiece(held, call.to) = Piece(call.promotionType, piece.color, call.to, TRUE)
       /\ isEmpty(held, call.from)
       /\ getPiece(received, call.to) \notin getAllPieces(held)
       /\ changed(received, held) = {call.from, call.to}
       /\ res.move = Move(call.from, call.to, piece, getPiece(received, call.to),
                          PawnPromotion, call.promotionType)

\* a pawn captured onto the back rank and became a knight
C10_Witness ==
  /\ call # NoCall /\ res.success
  /\ res.move.specialMove = PawnPromotion
  /\ res.move.capturedPiece # NoPiece
  /\ getPiece(held, call.to).type = Knight
  /\ call.promotionType = Knight

\* the files of a castling: where the king lands, where the rook leaves and lands
castlingFiles(kingside) ==
  IF kingside THEN [king |-> 6, rookFrom |-> 7, rookTo |-> 5]
  ELSE [king |-> 2, rookFrom |-> 0, rookTo |-> 3]

\* C11: an accepted castling move puts the king on file 6 (kingside) or 2
\* (queenside) and the rook of file 7 or 0 on file 5 or 3 of the same rank,
\* empties the squares the king and the rook came from, marks both hasMoved,
\* and changes no other square.
C11_CastlingBoardEffect ==
  (call # NoCall /\ res.success /\ isCastling(res.move)) =>
    \E files \in {castlingFiles(res.move.specialMove = CastleKingside)} :
      LET rank == call.from.rank
          king == getPiece(received, call.from)
          rookFrom == Position(files.rookFrom, rank)
          rookTo == Position(files.rookTo, rank)
          rook == getPiece(received, rookFrom)
      IN /\ king.type = King /\ rook.type = Rook
         /\ (res.move.specialMove = CastleKingside) <=> (call.to.file > call.from.file)
         /\ call.to = Position(files.king, rank)
         /\ getPiece(held, call.to) = Piece(King, king.color, call.to, TRUE)
         /\ getPiece(held, rookTo) = Piece(Rook, rook.color, rookTo, TRUE)
         /\ isEmpty(held, call.from)
         /\ isEmpty(held, rookFrom)
         /\ changed(received, held) = {call.from, call.to, rookFrom, rookTo}

\* White castled queenside
C11_Witness ==
  /\ call # NoCall /\ res.success
  /\ res.move.specialMove = CastleQueenside
  /\ getPiece(held, Position(3, 0)).type = Rook
  /\ getPiece(held, Position(2, 0)).type = King

\* a king of the colour has made a move in the game (castling included)
kingHasMoved(color) ==
  \E i \in 1..Len(game.moveHistory) :
    game.moveHistory[i].piece.type = King /\ game.moveHistory[i].piece.color = color

\* a piece has left the colour's corner of the file, or has moved onto it
cornerTouched(color, file) ==
  \E i \in 1..Len(game.moveHistory) :
    \E corner \in {Position(file, IF color = White THEN 0 ELSE 7)} :
      game.moveHistory[i].from = corner \/ game.moveHistory[i].to = corner

\* C12: in a game played through makeMove, no castling move is offered to a
\* side whose king has made a move (even if it is back on its home square),
\* and none on a side whose corner rook has moved or been captured, whatever
\* piece stands on the corner now.
C12_CastlingRightsNeverReturn ==
  \A color \in {White, Black} :
    \A move \in Range(getCastlingMoves(getKing(held, color), held)) :
      /\ ~kingHasMoved(color)
      /\ ~cornerTouched(color, IF move.specialMove = CastleKingside THEN 7 ELSE 0)

\* the white king went out and came back home beside its unmoved rook
C12_Witness ==
  /\ Len(game.moveHistory) = 3
  /\ kingHasMoved(White)
  /\ getKing(held, White) = Piece(King, White, Position(4, 0), TRUE)
  /\ getPiece(held, Position(7, 0)) = Piece(Rook, White, Position(7, 0), FALSE)
  /\ isEmpty(held, Position(5, 0)) /\ isEmpty(held, Position(6, 0))
  /\ \A file \in {4, 5, 6} : ~attacked(held, Position(file, 0), White)

\* the colour of the square a piece stands on
squareColour(piece) == (piece.position.file + piece.position.rank) % 2

\* the material with which no mate can be given: the kings alone, the kings and
\* one bishop or knight, the kings and two bishops on squares of one colour
bareMaterial(board) ==
  \E others \in {{p \in getAllPieces(board) : p.type # King}} :
    \/ others = {}
    \/ Cardinality(others) = 1 /\ \A p \in others : p.type \in {Bishop, Knight}
    \/ /\ Cardinality(others) = 2
       /\ \A p \in others : p.type = Bishop
       /\ \A p \in others, q \in others : squareColour(p) = squareColour(q)

\* the result and endReason that the order of the end rules gives a position
\* in which the side is to move: sideInCheck and noLegalMove describe that side
ruledEnd(side, sideInCheck, noLegalMove, bare, clock) ==
  IF sideInCheck /\ noLegalMove
  THEN [result |-> IF side = White THEN BlackWin ELSE WhiteWin, endReason |-> Checkmate]
  ELSE IF noLegalMove THEN [result |-> Draw, endReason |-> Stalemate]
  ELSE IF bare THEN [result |-> Draw, endReason |-> InsufficientMaterial]
  ELSE IF clock >= 100 THEN [result |-> Draw, endReason |-> FiftyMoveRule]
  ELSE [result |-> InProgress, endReason |-> Undefined]

\* C13: after an accepted move the new state's result is that of the first
\* rule that applies: side to move checkmated (win of the mover, Checkmate),
\* stalemated (Draw, Stalemate), insufficient material (Draw,
\* InsufficientMaterial), half-move clock at least 100 (Draw, FiftyMoveRule),
\* and otherwise InProgress without endReason.
C13_ResultByFirstMatchingRule ==
  (call # NoCall /\ res.success) =>
    \E end \in {ruledEnd(game.currentTurn,
                         attacked(held, getKing(held, game.currentTurn).position,
                                  game.currentTurn),
                         getAllLegalMoves(held, game.currentTurn, game.enPassantTarget) = <<>>,
                         bareMaterial(held), game.halfMoveClock)} :
      /\ game.currentTurn = opposite(prev.currentTurn)
      /\ game.result = end.result
      /\ game.endReason = end.endReason

\* a move mated while bringing the half-move clock to 100
C13_Witness ==
  /\ call # NoCall /\ res.success
  /\ game.halfMoveClock >= 100
  /\ game.endReason = Checkmate
  /\ game.result = WhiteWin

\* C14: on success the flags describe the new position for the new side to
\* move: isCheck iff its king is attacked, isCheckmate iff it is in check and
\* has no legal move, isStalemate iff it is not in check and has no legal move;
\* the last two are never both set and isCheckmate implies isCheck.
C14_FlagsDescribeNewPosition ==
  (call # NoCall /\ res.success) =>
    \E sideInCheck \in {attacked(held, getKing(held, game.currentTurn).position,
                                 game.currentTurn)} :
      \E noLegalMove \in {getAllLegalMoves(held, game.currentTurn,
                                           game.enPassantTarget) = <<>>} :
        /\ res.isCheck <=> sideInCheck
        /\ res.isCheckmate <=> (sideInCheck /\ noLegalMove)
        /\ res.isStalemate <=> (~sideInCheck /\ noLegalMove)
        /\ ~(res.isCheckmate /\ res.isStalemate)
        /\ res.isCheckmate => res.isCheck

\* a move stalemated the opponent
C14_Witness ==
  /\ call # NoCall /\ res.success
  /\ res.isStalemate /\ ~res.isCheck /\ ~res.isCheckmate
  /\ getAllLegalMoves(held, game.currentTurn, game.enPassantTarget) = <<>>

\* C15: in every state reached from createStandard by makeMove, resign and
\* agreeToDraw, endReason is set iff result is not InProgress.
C15_EndReasonIffEnded ==
  (game.endReason # Undefined) <=> (game.result # InProgress)

\* Black resigned after White's first move
C15_Witness ==
  /\ Len(game.moveHistory) = 1
  /\ game.result = WhiteWin
  /\ game.endReason = Resignation
  /\ prev.result = InProgress /\ prev.endReason = Undefined

\* the accepted move took a piece off the board
captures == Cardinality(DOMAIN held) < Cardinality(DOMAIN received)

\* C16: after an accepted move the half-move clock is 0 when the moved piece
\* is a pawn or the move captures (en passant and promotions included), and
\* the receiver's clock plus one otherwise (castling counts as a non-pawn,
\* non-capturing move).
C16_HalfMoveClock ==
  (call # NoCall /\ res.success) =>
    /\ game.halfMoveClock =
         IF getPiece(received, call.from).type = Pawn \/ captures
         THEN 0 ELSE prev.halfMoveClock + 1
    /\ isCastling(res.move) => game.halfMoveClock = prev.halfMoveClock + 1
    /\ (isEnPassant(res.move) \/ isPromotion(res.move)) => game.halfMoveClock = 0

\* a king's capture reset a clock that stood at 99
C16_Witness ==
  /\ call # NoCall /\ res.success
  /\ getPiece(received, call.from).type = King
  /\ captures
  /\ prev.halfMoveClock = 99
  /\ game.halfMoveClock = 0

\* the moves of the history made by Black
blackMoves ==
  {i \in DOMAIN game.moveHistory : game.moveHistory[i].piece.color = Black}

\* C17: an accepted move by White leaves the full-move number as it was and
\* an accepted move by Black adds one to it; in a game begun with
\* createStandard it is 1 plus the number of Black moves made.
C17_FullMoveNumber ==
  /\ (call # NoCall /\ res.success) =>
       game.fullMoveNumber =
         IF getPiece(received, call.from).color = White
         THEN prev.fullMoveNumber ELSE prev.fullMoveNumber + 1
  /\ game.fullMoveNumber = 1 + Cardinality(blackMoves)

\* Black has answered White's first move
C17_Witness ==
  /\ call # NoCall /\ res.success
  /\ getPiece(received, call.from).color = Black
  /\ Len(game.moveHistory) = 2
  /\ prev.fullMoveNumber = 1
  /\ game.fullMoveNumber = 2

\* the step returned a state with the receiver's position and left the
\* receiver as it was
positionKept ==
  /\ boards'[game'.board] = boards[game.board]
  /\ game'.currentTurn = game.currentTurn
  /\ game'.moveHistory = game.moveHistory
  /\ game'.enPassantTarget = game.enPassantTarget
  /\ game'.halfMoveClock = game.halfMoveClock
  /\ game'.fullMoveNumber = game.fullMoveNumber
  /\ prev' = game
  /\ boards'[prev'.board] = boards[game.board]

\* C18: resign() returns a state whose result is a win for the opponent of
\* the side to move with endReason Resignation; agreeToDraw() returns a state
\* with result Draw and endReason DrawAgreement; in both the board, side to
\* move, history, en-passant target and clocks equal the receiver's, and the
\* receiver is unchanged.
C18_ResignAndAgreeToDraw ==
  [][ /\ Resign =>
           /\ game'.result = (IF game.currentTurn = White THEN BlackWin ELSE WhiteWin)
           /\ game'.endReason = Resignation
           /\ positionKept
      /\ AgreeToDraw =>
           /\ game'.result = Draw
           /\ game'.endReason = DrawAgreement
           /\ positionKept ]_vars

\* Black resigned a game in progress at a position with a running clock
C18_Witness ==
  /\ call = NoCall /\ prev # NoState
  /\ prev.result = InProgress /\ prev.currentTurn = Black
  /\ prev.halfMoveClock > 0 /\ Len(prev.moveHistory) > 0
  /\ game.result = WhiteWin /\ game.endReason = Resignation
  /\ game.halfMoveClock = prev.halfMoveClock
  /\ held = received

\* the board holds one king of each colour
oneKingEach ==
  \A color \in {White, Black} :
    Cardinality({p \in getAllPieces(held) : p.type = King /\ p.color = color}) = 1

\* C19: on every board holding one king of each colour hasInsufficientMaterial
\* is true exactly when the board holds only the two kings, or the kings and a
\* single bishop or knight, or the kings and two bishops on squares of the
\* same colour; it is false for every other material, king and rook, king and
\* queen or king and pawn against a bare king included.
C19_InsufficientMaterial ==
  oneKingEach =>
    /\ hasInsufficientMaterial(held) <=> bareMaterial(held)
    /\ (\E p \in getAllPieces(held) : p.type \in {Rook, Queen, Pawn}) =>
         ~hasInsufficientMaterial(held)

\* two bishops on squares of one colour beside the kings: insufficient
C19_Witness ==
  /\ oneKingEach
  /\ Cardinality(DOMAIN held) = 4
  /\ \E p \in getAllPieces(held), q \in getAllPieces(held) :
       /\ p # q /\ p.type = Bishop /\ q.type = Bishop
       /\ p.color # q.color
       /\ squareColour(p) = squareColour(q)
  /\ hasInsufficientMaterial(held)

\* the direction of a difference of coordinates
sign(n) == IF n > 0 THEN 1 ELSE IF n < 0 THEN -1 ELSE 0

\* every square strictly between two squares of one file, rank or diagonal is empty
clearBetween(board, from, to) ==
  \E df \in {to.file - from.file}, dr \in {to.rank - from.rank} :
    \A k \in 1..((IF abs(df) > abs(dr) THEN abs(df) ELSE abs(dr)) - 1) :
      isEmpty(board, Position(from.file + k * sign(df), from.rank + k * sign(dr)))

\* a piece could capture on the target in one move by its movement rule
reaches(board, attacker, target) ==
  \E df \in {target.file - attacker.position.file}, dr \in {target.rank - attacker.position.rank} :
    \E straight \in {(df = 0) # (dr = 0)}, diagonal \in {df # 0 /\ abs(df) = abs(dr)} :
      CASE attacker.type = Knight -> {abs(df), abs(dr)} = {1, 2}
        [] attacker.type = King -> abs(df) <= 1 /\ abs(dr) <= 1 /\ (df # 0 \/ dr # 0)
        [] attacker.type = Pawn ->
             dr = (IF attacker.color = White THEN 1 ELSE -1) /\ abs(df) = 1
        [] attacker.type = Rook -> straight /\ clearBetween(board, attacker.position, target)
        [] attacker.type = Bishop -> diagonal /\ clearBetween(board, attacker.position, target)
        [] attacker.type = Queen ->
             (straight \/ diagonal) /\ clearBetween(board, attacker.position, target)

\* C20: for every board and colour isInCheck is true iff some opponent piece
\* could capture that colour's king in one move by its movement rule (rook,
\* bishop and queen along unblocked rays, knight by an L-jump, pawn on one of
\* its two forward diagonals only, the other king by adjacency), and false
\* when the board has no king of that colour.
C20_CheckIffKingCapturable ==
  \A color \in {White, Black} :
    \E kings \in {{p \in getAllPieces(held) : p.type = King /\ p.color = color}} :
      /\ isInCheck(held, color) <=>
           \E king \in kings, attacker \in getPiecesByColor(held, opposite(color)) :
             reaches(held, attacker, king.position)
      /\ kings = {} => ~isInCheck(held, color)

\* a white pawn on f2 checks the king on e3 from its forward diagonal and
\* blocks the bishop on h4 from the king on e1
C20_Witness ==
  /\ oneKingEach
  /\ getPiece(held, Position(5, 1)) = P(Pawn, White, 5, 1, FALSE)
  /\ getPiece(held, Position(7, 3)) = P(Bishop, Black, 7, 3, FALSE)
  /\ getKing(held, Black).position = Position(4, 2)
  /\ isInCheck(held, Black)
  /\ ~isInCheck(held, White)

\* the string has the form [a-h][1-8]
matchesSquare(s) ==
  /\ Len(s) = 2
  /\ s[1] \in {"a", "b", "c", "d", "e", "f", "g", "h"}
  /\ s[2] \in {"1", "2", "3", "4", "5", "6", "7", "8"}

\* C25: fromAlgebraic raises an error for every string that does not match
\* [a-h][1-8] (wrong length, first character outside a-h, second character
\* not a digit 1-8), and whenever it returns, both coordinates of the position
\* are integers in 0..7.
C25_FromAlgebraicRejectsMalformed ==
  /\ (out.status # "none" /\ ~matchesSquare(text)) => out.status = "thrown"
  /\ out.status = "returned" => (out.value.file \in 0..7 /\ out.value.rank \in 0..7)

\* C26: fromAlgebraic(toAlgebraic(p)) = p for every position p with file and
\* rank in 0..7, and toAlgebraic(fromAlgebraic(s)) = s for every string s
\* matching [a-h][1-8].
C26_AlgebraicRoundTrip ==
  /\ (out.status # "none" /\ matchesSquare(text)) =>
       (out.status = "returned" /\ toAlgebraic(out.value) = text)
  /\ (out.status = "returned" /\ isValid(out.value)) =>
       (~fromAlgebraicThrows(toAlgebraic(out.value))
          /\ fromAlgebraic(toAlgebraic(out.value)) = out.value)

\* "h8" was parsed to the position (7, 7)
C26_Witness ==
  /\ text = <<"h", "8">>
  /\ out.status = "returned"
  /\ out.value = Position(7, 7)

\* the two boards hold the same type and colour of piece on every square
samePlacement(b1, b2) ==
  \A pos \in Positions :
    /\ getPiece(b1, pos).type = getPiece(b2, pos).type
    /\ getPiece(b1, pos).color = getPiece(b2, pos).color

\* C23: for every board b with at most one piece per square,
\* Board.fromFEN(b.toFEN()).toFEN() equals b.toFEN(), and the rebuilt board
\* has the same piece type and colour on every square as b.
C23_BoardFENRoundTrip ==
  \E fen \in {BoardToFEN(held)} :
    \E rebuilt \in {BoardFromFEN(fen, <<"-">>)} :
      /\ rebuilt.error = Undefined
      /\ BoardToFEN(rebuilt.board) = fen
      /\ samePlacement(rebuilt.board, held)

\* a board with two pieces beside the kings on e1 and e3, written
\* "8/8/8/4b3/8/4k3/3P4/4K3"
C23_Witness ==
  /\ Cardinality(DOMAIN held) = 4
  /\ BoardToFEN(held) =
       <<"8", "/", "8", "/", "8", "/", "4", "b", "3", "/", "8", "/",
         "4", "k", "3", "/", "3", "P", "4", "/", "4", "K", "3">>

\* C22: for every state s reached by makeMove from createStandard,
\* GameState.fromFEN(s.toFEN()) has the same piece type and colour on every
\* square, the same side to move, the same en-passant target, the same
\* half-move clock and the same full-move number as s.
C22_GameFENRoundTrip ==
  \E parsed \in {fromFEN(toFEN(game, held))} :
    /\ parsed.error = Undefined
    /\ samePlacement(parsed.board, held)
    /\ parsed.currentTurn = game.currentTurn
    /\ parsed.enPassantTarget = game.enPassantTarget
    /\ parsed.halfMoveClock = game.halfMoveClock
    /\ parsed.fullMoveNumber = game.fullMoveNumber

\* after 1. e4 a5 the state is written with the target a6 and move number 2
C22_Witness ==
  /\ call # NoCall /\ res.success
  /\ Len(game.moveHistory) = 2
  /\ game.enPassantTarget = Position(0, 5)
  /\ toFEN(game, held) =
       <<"r", "n", "b", "q", "k", "b", "n", "r", "/",
         "1", "p", "p", "p", "p", "p", "p", "p", "/",
         "8", "/", "p", "7", "/", "4", "P", "3", "/", "8", "/",
         "P", "P", "P", "P", "1", "P", "P", "P", "/",
         "R", "N", "B", "Q", "K", "B", "N", "R",
         " ", "w", " ", "-", " ", "a", "6", " ", "0", " ", "2">>

\* where the white-space-separated fields of a string begin
fieldStarts(s) == {i \in 1..Len(s) : s[i] # " " /\ (i = 1 \/ s[i - 1] = " ")}

\* the field that begins at index a
fieldAt(s, a) ==
  SubSeq(s, a, (CHOOSE b \in a..Len(s) :
                  /\ \A k \in a..b : s[k] # " "
                  /\ (b = Len(s) \/ s[b + 1] = " ")))

\* the n-th field of a string
field(s, n) ==
  fieldAt(s, CHOOSE a \in fieldStarts(s) : Cardinality({b \in fieldStarts(s) : b <= a}) = n)

\* the positions around the ranks of a placement: before it, its '/', after it
rankEdges(p) == {0, Len(p) + 1} \cup {i \in 1..Len(p) : p[i] = "/"}

SquareDigits == <<"1", "2", "3", "4", "5", "6", "7", "8">>

PlacementLetters == {"K", "Q", "R", "B", "N", "P", "k", "q", "r", "b", "n", "p"}

\* the squares a character of a placement describes
squaresOf(c) ==
  IF \E n \in 1..8 : SquareDigits[n] = c THEN CHOOSE n \in 1..8 : SquareDigits[n] = c ELSE 1

\* the squares described between two edges of a placement
squaresBetween(p, a, b) ==
  Cardinality({kj \in ((a + 1)..(b - 1)) \X (1..8) : kj[2] <= squaresOf(p[kj[1]])})

wrongRankCount(p) == Cardinality(rankEdges(p)) - 1 # 8

unknownCharacter(p) ==
  \E i \in 1..Len(p) :
    p[i] # "/" /\ p[i] \notin PlacementLetters /\ ~(\E n \in 1..8 : SquareDigits[n] = p[i])

wrongSquareCount(p) ==
  \E a \in rankEdges(p), b \in rankEdges(p) :
    /\ a < b /\ ~(\E c \in rankEdges(p) : a < c /\ c < b)
    /\ squaresBetween(p, a, b) # 8

\* the FEN is malformed in one of the four ways
malformed(s) ==
  \/ Cardinality(fieldStarts(s)) # 6
  \/ \E p \in {field(s, 1)} : wrongRankCount(p) \/ unknownCharacter(p) \/ wrongSquareCount(p)

\* C24: GameState.fromFEN raises an error and returns no state when the string
\* does not have exactly 6 white-space-separated fields, when the placement
\* does not have exactly 8 ranks, when a placement character is neither a
\* digit 1-8 nor one of K, Q, R, B, N, P in either case, or when a rank does
\* not describe exactly 8 squares.
C24_MalformedFENRaises ==
  (out.status # "none" /\ malformed(text)) => (out.status = "thrown" /\ game = NoState)

\* a FEN of six fields and eight ranks of known characters, one rank of which
\* describes nine squares, was rejected
C24_Witness ==
  /\ out.status = "thrown"
  /\ Cardinality(fieldStarts(text)) = 6
  /\ ~wrongRankCount(field(text, 1))
  /\ ~unknownCharacter(field(text, 1))
  /\ \E a \in rankEdges(field(text, 1)), b \in rankEdges(field(text, 1)) :
       /\ a < b /\ ~(\E c \in rankEdges(field(text, 1)) : a < c /\ c < b)
       /\ squaresBetween(field(text, 1), a, b) = 9
  /\ game = NoState

\* the castling rights of FEN: the letter, the colour, the rook's home file
CastlingRights ==
  {[letter |-> "K", color |-> White, rookFile |-> 7],
   [letter |-> "Q", color |-> White, rookFile |-> 0],
   [letter |-> "k", color |-> Black, rookFile |-> 7],
   [letter |-> "q", color |-> Black, rookFile |-> 0]}

homeRank(color) == IF color = White THEN 0 ELSE 7

\* the castling field of the FEN grants the right
granted(right) == \E i \in 1..Len(field(text, 3)) : field(text, 3)[i] = right.letter

\* the king and the rook of the right stand on their starting squares
atHome(right) ==
  /\ getPiece(held, Position(4, homeRank(right.color))).type = King
  /\ getPiece(held, Position(4, homeRank(right.color))).color = right.color
  /\ getPiece(held, Position(right.rookFile, homeRank(right.color))).type = Rook
  /\ getPiece(held, Position(right.rookFile, homeRank(right.color))).color = right.color

\* the squares between king and rook are empty and the king's squares unattacked
pathFree(right) ==
  LET rank == homeRank(right.color)
      between == IF right.rookFile = 7 THEN 5..6 ELSE 1..3
      kingFiles == IF right.rookFile = 7 THEN 4..6 ELSE 2..4
  IN /\ \A file \in between : isEmpty(held, Position(file, rank))
     /\ \A file \in kingFiles : ~attacked(held, Position(file, rank), right.color)

\* getAllLegalMoves offers the castling move of the right
castlingOffered(right) ==
  \E move \in Range(getAllLegalMoves(held, game.currentTurn, game.enPassantTarget)) :
    /\ isCastling(move)
    /\ move.from = Position(4, homeRank(right.color))
    /\ move.to = Position(IF right.rookFile = 7 THEN 6 ELSE 2, homeRank(right.color))

\* C21: GameState.fromFEN of a FEN whose castling field grants a right (K, Q,
\* k or q) gives a state in which the king and the corresponding rook on
\* their starting squares have hasMoved = false, so that the castling move is
\* offered when the path is empty and unattacked; a king or rook whose right
\* is not granted has hasMoved = true, and pawns on their home rank have
\* hasMoved = false.
C21_FromFENCastlingRights ==
  out.status = "returned" =>
    /\ \A right \in CastlingRights :
         (granted(right) /\ atHome(right)) =>
           /\ ~getPiece(held, Position(4, homeRank(right.color))).hasMoved
           /\ ~getPiece(held, Position(right.rookFile, homeRank(right.color))).hasMoved
           /\ (game.currentTurn = right.color /\ pathFree(right)) => castlingOffered(right)
    /\ \A right \in CastlingRights :
         (~granted(right) /\ atHome(right)) =>
           getPiece(held, Position(right.rookFile, homeRank(right.color))).hasMoved
    /\ \A piece \in getAllPieces(held) :
         /\ (piece.type = King /\ ~(\E right \in CastlingRights :
                                      right.color = piece.color /\ granted(right)))
              => piece.hasMoved
         /\ (piece.type = Pawn /\ piece.position.rank = (IF piece.color = White THEN 1 ELSE 6))
              => ~piece.hasMoved

\* a step changed the contents of the board of the id
boardChanged(id) == boards'[id] # boards[id]

\* C27: GameState.clone() returns a state equal to the original in side to
\* move, history, en-passant target, clocks, result and endReason, whose
\* board is an independent copy: setting, moving or removing pieces on the
\* clone's board never changes the original's board, and changes to the
\* original's board never change the clone's.
C27_CloneIsIndependent ==
  [][ /\ CloneState =>
           /\ game'.currentTurn = game.currentTurn
           /\ game'.moveHistory = game.moveHistory
           /\ game'.enPassantTarget = game.enPassantTarget
           /\ game'.halfMoveClock = game.halfMoveClock
           /\ game'.fullMoveNumber = game.fullMoveNumber
           /\ game'.result = game.result
           /\ game'.endReason = game.endReason
           /\ boards'[game'.board] = boards[game.board]
           /\ boards'[prev'.board] = boards[game.board]
      /\ (SetPiece \/ RemovePiece \/ MovePiece) =>
           /\ boardChanged(game.board) => ~boardChanged(prev.board)
           /\ boardChanged(prev.board) => ~boardChanged(game.board) ]_vars

\* the clone of a state with a history and an en-passant target has lost a
\* piece that the original still holds
C27_Witness ==
  /\ cloned
  /\ Len(game.moveHistory) = 1
  /\ game.enPassantTarget # NoPosition
  /\ getPiece(held, Position(7, 0)) = NoPiece
  /\ getPiece(received, Position(7, 0)).type = King

\* the result of the call run alone on the state as it was before the calls
alone(i) ==
  makeMove(prev, calls[i].args.from, calls[i].args.to, calls[i].args.promotionType, boards)

\* two MoveResults are the same but for the identity of the new Board object
sameResult(r1, hp1, r2, hp2) ==
  /\ [r1 EXCEPT !.newState = NoState] = [r2 EXCEPT !.newState = NoState]
  /\ (r1.newState = NoState) <=> (r2.newState = NoState)
  /\ r1.newState # NoState =>
       /\ [r1.newState EXCEPT !.board = 0] = [r2.newState EXCEPT !.board = 0]
       /\ hp1[r1.newState.board] = hp2[r2.newState.board]

\* C28: two makeMove calls issued against the same GameState, under every
\* interleaving of their internal steps (legal-move search on cloned boards,
\* board clone, mutation of the clone, end-condition detection), each return
\* exactly the result they would return when run alone, and the shared
\* starting state is unchanged afterwards.
C28_ConcurrentCallsIndependent ==
  /\ \A i \in 1..Len(calls) :
       calls[i].pc = "done" =>
         \E a \in {alone(i)} : sameResult(calls[i].result, boards, a.result, a.heap)
  /\ calls # <<>> =>
       /\ game = [prev EXCEPT !.board = game.board]
       /\ held = received

\* both calls were accepted with different moves, the second having cloned
\* the board before the first
C28_Witness ==
  /\ Len(calls) = 2
  /\ calls[1].pc = "done" /\ calls[2].pc = "done"
  /\ calls[1].result.success /\ calls[2].result.success
  /\ calls[1].args # calls[2].args
  /\ calls[2].newBoard < calls[1].newBoard
  /\ boards[calls[1].newBoard] # boards[calls[2].newBoard]
  /\ held = received

\* the moves made so far are the first n of the sequence, in its order
played(state, n) ==
  /\ Len(state.moveHistory) = n
  /\ \A j \in 1..n :
       /\ state.moveHistory[j].from = SequenceCall(j).from
       /\ state.moveHistory[j].to = SequenceCall(j).to

\* C29: starting from createStandard and applying each move to the state
\* returned by the previous one, the sequence e2e4, e7e5, d1h5, b8c6, f1c4,
\* g8f6, h5f7 is accepted move by move; the first six results leave the game
\* InProgress and the seventh returns isCheckmate=true with a new state whose
\* result is WhiteWin and endReason is Checkmate.
C29_ScholarsMate ==
  \A i \in 1..Len(moves) :
    (prev # NoState /\ played(prev, i - 1) /\ call = SequenceCall(i)) =>
      /\ res.success
      /\ res.newState = game
      /\ played(game, i)
      /\ i < Len(moves) => (game.result = InProgress /\ ~res.isCheckmate)
      /\ i = Len(moves) =>
           /\ res.isCheckmate
           /\ game.result = WhiteWin
           /\ game.endReason = Checkmate

\* the seventh move of the sequence was made after the first six: the queen
\* stands on f7 and the pawn it took is gone
C29_Witness ==
  /\ prev # NoState
  /\ played(prev, 6)
  /\ call = SequenceCall(7)
  /\ played(game, 7)
  /\ getPiece(held, Position(5, 6)).type = Queen
  /\ getPiece(held, Position(5, 6)).color = White
  /\ res.move.capturedPiece.type = Pawn

\* the squares a pawn may go to, by the rule as the claim words it
pawnSquares(pawn, board) ==
  LET ahead(pos) ==
        IF pawn.color = White THEN pos.rank - pawn.position.rank
        ELSE pawn.position.rank - pos.rank
      aside(pos) == pos.file - pawn.position.file
      between == Position(pawn.position.file, pawn.position.rank + (IF pawn.color = White THEN 1 ELSE -1))
  IN {pos \in Positions :
        \/ aside(pos) = 0 /\ ahead(pos) = 1 /\ getPiece(board, pos) = NoPiece
        \/ /\ aside(pos) = 0 /\ ahead(pos) = 2
           /\ pawn.position.rank = (IF pawn.color = White THEN 1 ELSE 6)
           /\ getPiece(board, between) = NoPiece
           /\ getPiece(board, pos) = NoPiece
        \/ /\ aside(pos) \in {-1, 1} /\ ahead(pos) = 1
           /\ getPiece(board, pos) # NoPiece
           /\ getPiece(board, pos).color # pawn.color}

\* C30: for every pawn and board, PawnRules.getPossibleMoves returns exactly the
\* square one rank forward if it is on the board and empty, the square two
\* ranks forward if the pawn stands on its starting rank (1 for White, 6 for
\* Black) and both the intervening and the destination square are empty, and
\* each of the two forward-diagonal squares that is on the board and occupied
\* by an opponent piece; it returns no other square, in particular no
\* en-passant square.
C30_PawnMoves ==
  out.status = "returned" =>
    /\ Range(out.value) = pawnSquares(getPiece(held, call.from), held)
    /\ Len(out.value) = Cardinality(Range(out.value))

\* the white pawn on e2 may step to e3 and e4 and take the black pawn on d3; of
\* the black pawn beside it on f2 the squares returned hold nothing
C30_Witness ==
  /\ out.status = "returned"
  /\ call.from = Position(4, 1)
  /\ getPiece(held, Position(4, 1)).color = White
  /\ getPiece(held, Position(3, 2)) # NoPiece
  /\ getPiece(held, Position(3, 2)).color = Black
  /\ getPiece(held, Position(5, 1)) # NoPiece
  /\ getPiece(held, Position(5, 1)).color = Black
  /\ Range(out.value) = {Position(4, 2), Position(4, 3), Position(3, 2)}

\* the squares a piece reaches along rays: on one of its lines, with nothing
\* between, and empty or held by an opponent piece
raySquares(piece, board, straight, diagonal) ==
  {pos \in Positions :
     \E df \in {pos.file - piece.position.file}, dr \in {pos.rank - piece.position.rank} :
       /\ \/ straight /\ ((df = 0) # (dr = 0))
          \/ diagonal /\ df # 0 /\ abs(df) = abs(dr)
       /\ clearBetween(board, piece.position, pos)
       /\ getPiece(board, pos) = NoPiece \/ getPiece(board, pos).color # piece.color}

\* the piece getPossibleMoves was asked about
asked == getPiece(held, call.from)

\* C31: for a rook, bishop or queen on any board, getPossibleMoves returns
\* exactly the squares reached by walking each of its rays (4 orthogonal for
\* the rook, 4 diagonal for the bishop) away from the piece until the board
\* edge or the first occupied square, including that occupied square iff it
\* holds an opponent piece; the queen's set equals the union of the rook's set
\* and the bishop's set computed for a piece of the same colour on the same
\* square.
C31_SlidingMoves ==
  (out.status = "returned" /\ asked.type \in {Rook, Bishop, Queen}) =>
    /\ Range(out.value) = raySquares(asked, held, asked.type # Bishop, asked.type # Rook)
    /\ Len(out.value) = Cardinality(Range(out.value))
    /\ asked.type = Queen =>
         Range(out.value) = Range(getPossibleMoves([asked EXCEPT !.type = Rook], held))
                              \cup Range(getPossibleMoves([asked EXCEPT !.type = Bishop], held))

\* a white queen on d4 with a black rook on g7: the long diagonal is walked up
\* to g7 and not to h8, and the corner a1 is reached
C31_Witness ==
  /\ out.status = "returned"
  /\ asked = P(Queen, White, 3, 3, FALSE)
  /\ getPiece(held, Position(6, 6)) = P(Rook, Black, 6, 6, FALSE)
  /\ Position(6, 6) \in Range(out.value)
  /\ Position(7, 7) \notin Range(out.value)
  /\ Position(0, 0) \in Range(out.value)
  /\ Position(3, 7) \in Range(out.value)
  /\ Len(out.value) = 26

\* the squares a piece steps to: at one of the offsets and not held by an own piece
stepSquares(piece, board, knight) ==
  {pos \in Positions :
     \E df \in {abs(pos.file - piece.position.file)}, dr \in {abs(pos.rank - piece.position.rank)} :
       /\ IF knight THEN {df, dr} = {1, 2} ELSE df <= 1 /\ dr <= 1 /\ df + dr > 0
       /\ getPiece(board, pos) = NoPiece \/ getPiece(board, pos).color # piece.color}

\* C32: for a knight (respectively king) on any board, getPossibleMoves returns
\* exactly those of the 8 L-shaped (respectively 8 adjacent) offset squares
\* that are on the board and not occupied by a piece of the same colour; the
\* king's set never contains a castling destination two files away.
C32_KnightAndKingMoves ==
  (out.status = "returned" /\ asked.type \in {Knight, King}) =>
    /\ Range(out.value) = stepSquares(asked, held, asked.type = Knight)
    /\ Len(out.value) = Cardinality(Range(out.value))
    /\ asked.type = King =>
         \A pos \in Range(out.value) : abs(pos.file - asked.position.file) < 2

\* the unmoved white king on e1 with its unmoved rook on h1: five squares, g1
\* not among them
C32_Witness ==
  /\ out.status = "returned"
  /\ asked = P(King, White, 4, 0, FALSE)
  /\ getPiece(held, Position(7, 0)) = P(Rook, White, 7, 0, FALSE)
  /\ Range(out.value) = {Position(3, 0), Position(5, 0), Position(3, 1), Position(4, 1), Position(5, 1)}

\* C33: for every GameState in which the side to move has at least one legal
\* move, the move (from, to, promotionType) returned by
\* RandomCpuPlayer.requestMove is accepted by makeMove on that same state
\* (success=true), including when the chosen legal move is a pawn move onto
\* the back rank.
C33_CpuMoveAccepted ==
  (prev # NoState /\ call \in requestMove(prev, boards)) => res.success

eventsOf(type) == {i \in 1..Len(events) : events[i].type = type}

\* game_start is the first event and the only one of its type, once start()
\* runs; game_end is the last, after start() has left the loop with a state
\* that has an endReason; every move made has had its move_made
orderedEvents ==
  /\ manager.pc \in {"loop", "asked", "returned"} => eventsOf("game_start") = {1}
  /\ manager.pc = "constructed" => events = <<>>
  /\ \A i \in eventsOf("game_end") :
       i = Len(events) /\ manager.pc = "returned" /\ game.endReason # Undefined
  /\ Cardinality(eventsOf("move_made")) = Len(game.moveHistory)

\* what a step of the manager emits: after the player's answer, the three
\* events of an accepted move (check iff the side now to move is in check), or
\* nothing for a rejected one, which also leaves the state as it was; events
\* are never taken back
emittedByStep ==
  /\ \E k \in 0..3 : Len(events') = Len(events) + k /\ SubSeq(events', 1, Len(events)) = events
  /\ (manager.pc = "asked" /\ manager'.pc # "asked" /\ call' # NoCall /\ prev' = game) =>
       IF Len(game'.moveHistory) > Len(game.moveHistory)
       THEN events' = events
                        \o <<Event("move_made", "none"), Event("turn_change", game'.currentTurn)>>
                        \o (IF isInCheck(boards'[game'.board], game'.currentTurn)
                            THEN <<Event("check", game'.currentTurn)>> ELSE <<>>)
       ELSE events' = events /\ game' = game /\ boards'[game'.board] = boards[game.board]
  /\ manager'.pc = "asked" /\ manager.pc # "asked" => events' = events

C36_KingsNeverCaptured ==
  /\ oneKingEach
  /\ res.success => res.move.capturedPiece.type # King

\* the side to move has no legal move in the state the caller holds
noLegalMove == Len(getAllLegalMoves(held, game.currentTurn, game.enPassantTarget)) = 0

\* C37: in every state produced by makeMove, result = InProgress implies that
\* the side to move has at least one legal move (getLegalMoves is non-empty);
\* a position with no legal move is always reported as Checkmate or Stalemate.
C37_NoLegalMoveIsReported ==
  (res.success /\ res.newState = game) =>
    \E stuck \in {noLegalMove} :
      /\ game.result = InProgress => ~stuck
      /\ stuck => game.endReason \in {Checkmate, Stalemate}

\* the queen's move to f7 leaves the black king on h8 unattacked and without
\* a move: the state is reported as a draw by stalemate
C37_Witness ==
  /\ res.success /\ res.newState = game
  /\ noLegalMove
  /\ ~isInCheck(held, game.currentTurn)
  /\ game.result = Draw /\ game.endReason = Stalemate
  /\ getPiece(held, Position(5, 6)).type = Queen

\* C38: in every state reachable by makeMove from createStandard, no pawn
\* stands on rank 0 or rank 7, and a pawn has hasMoved=false iff it stands on
\* its own starting rank (rank 1 for White, rank 6 for Black), so that gating
\* the double step on the rank is equivalent to gating it on hasMoved.
C38_PawnsAndStartingRank ==
  \A p \in getAllPieces(held) :
    p.type = Pawn =>
      /\ p.position.rank \notin {0, 7}
      /\ ~p.hasMoved <=> p.position.rank = (IF p.color = White THEN 1 ELSE 6)

\* the black pawn that went h7-h5-h4xg3xh2 has been promoted on g1; the white
\* pawn on a3 has moved and stands off its rank, the one on b2 has not
C38_Witness ==
  /\ res.success /\ isPromotion(res.move)
  /\ getPiece(held, Position(6, 0)) = P(Queen, Black, 6, 0, TRUE)
  /\ getPiece(held, Position(0, 2)) = P(Pawn, White, 0, 2, TRUE)
  /\ getPiece(held, Position(1, 1)) = P(Pawn, White, 1, 1, FALSE)
  /\ getPiece(held, Position(7, 1)) = NoPiece

\* the piece on the corner a castling move of the king brings in: file 7 of
\* the king's rank for the kingside, file 0 for the queenside
cornerOf(board, move) ==
  getPiece(board, Position(IF move.specialMove = CastleKingside THEN 7 ELSE 0, move.from.rank))

\* C39: for every board, every castling move returned by getCastlingMoves
\* pairs the king with a corner rook of the king's own colour, although
\* getCastlingMoves compares only the corner piece's type and hasMoved flag:
\* an unmoved opponent rook on the corner never enables castling.
C39_CastlingWithOwnRook ==
  out.status = "returned" =>
    \A i \in 1..Len(out.value) :
      /\ out.value[i].piece = asked
      /\ cornerOf(held, out.value[i]) # NoPiece
      /\ cornerOf(held, out.value[i]).type = Rook
      /\ cornerOf(held, out.value[i]).color = asked.color

\* getCastlingMoves returned one castling move for a king whose rank has an
\* unmoved rook of each colour on its corners
C39_Witness ==
  /\ out.status = "returned"
  /\ Len(out.value) = 1
  /\ \E file \in {0, 7} :
       LET corner == getPiece(held, Position(file, asked.position.rank))
       IN corner # NoPiece /\ corner.type = Rook /\ ~corner.hasMoved
          /\ corner.color # asked.color

====
